---- MODULE Spec2Model ----
(***************************************************************************)
(* Model of the wallet reconciliation engine (src/wallet-engine.js) as it  *)
(* is driven by the engine router (src/routes/wallet-routes.js:160-415):   *)
(* the address registry, the unspent-output and mempool stores, the        *)
(* balance classifier, the per-address push connections with their retry   *)
(* timers, and the poll sweep.                                             *)
(*                                                                         *)
(* Further sections model the UTXO routes with their cache                 *)
(* (src/unnamed/part_000), the conflict-set builders and the OP_RETURN     *)
(* routes (src/bitcoin-beast-framework.js), and the standalone wallet      *)
(* router (src/routes/wallet-routes.js:1-158).                             *)
(*                                                                         *)
(* The router builds the engine without an 'error' listener                *)
(* (wallet-routes.js:163-165), so every emit('error', ...) of the engine   *)
(* throws at the place of the emit.                                        *)
(***************************************************************************)
EXTENDS Integers, Sequences, FiniteSets, TLC

VARIABLES
    alive,        \* the Node process is running
    addresses,    \* this.addresses: array of monitored addresses
    utxos,        \* this.utxos: object keyed by address -> stored list
    mempool_txs,  \* this.mempool_txs: object keyed by address -> txid-keyed snapshot
    min_conf,     \* this.config.min_confirmations_spendable
    websockets,   \* this.websockets: object keyed by address -> connection slot
    conns,        \* the WebSocket objects that still exist, by slot
    timers,       \* armed retry timers (setTimeout of the close handler) per address
    polling,      \* set: this.polling_interval holds a timer; active: the number
                  \* of interval timers created and not cleared
    inflight,     \* pending axios.get calls with the continuation awaiting each
    removed,      \* history: removeAddress(a) was called and a not added since
    ev,           \* history: what the last step did
    network,      \* this.network of the engine
    utxo_cache,   \* utxo_cache of the UTXO routes: object keyed by network:address
    now,          \* Date.now(), in milliseconds since the server started
    pending,      \* /utxos requests waiting for the indexer's answer
    currentUsdRate, \* currentUsdRate of the UTXO routes
    unrated,      \* history: utxo_cache in the run with the same requests and
                  \* indexer answers where no fiat rate is ever set
    monitoredAddresses \* monitoredAddresses of the standalone wallet router

storeVars == <<utxos, mempool_txs>>
wsVars == <<websockets, conns, timers>>
rateVars == <<currentUsdRate, unrated>>
cacheVars == <<utxo_cache, now, pending, rateVars>>
extVars == <<network, utxo_cache, now, pending, rateVars>>
vars == <<alive, addresses, utxos, mempool_txs, min_conf, websockets, conns,
          timers, polling, inflight, removed, ev, network, utxo_cache, now, pending,
          currentUsdRate, unrated, monitoredAddresses>>

----------------------------------------------------------------------------
(* Bounds and small input sets *)

Addr == {"a1", "a2"}
TxIds == {"t1", "t2"}
MaxInflight == 2
MaxConns == 2
MaxTimers == 1
MaxConfirmations == 3
MaxThreshold == 2
MaxPollTimers == 2


----------------------------------------------------------------------------
(* What the indexer can answer.  A reply is chosen when a request completes: *)
(* the indexer is an external collaborator whose state the engine never sees *)

RawUtxo(t, i, val, conf, h) ==
    [txid |-> t, vout |-> i, value |-> val, confirmed |-> conf, block_height |-> h]

RawOut(a, val) == [scriptpubkey_address |-> a, value |-> val]

IndexerUtxoReplies ==
    { <<>>,
      << RawUtxo("t1", 0, 5, TRUE, 100), RawUtxo("t2", 0, 3, FALSE, 0) >> }

IndexerMempoolReplies ==
    { <<>>,
      << [txid |-> "t2",
          vout |-> << RawOut("a1", 3), RawOut("a2", 2), RawOut("a1", 1) >>],
         [txid |-> "t1",
          vout |-> << RawOut("a2", 6), RawOut("a1", 0) >>] >> }

(* The engine asks the indexer of this.network (this.apis, wallet-engine.js:  *)
(* 24-35).  The sets above are the testnet indexer's answers; the mainnet    *)
(* indexer knows other transactions.                                         *)
Networks == {"testnet", "mainnet"}

MainnetUtxoReplies == { << RawUtxo("m1", 0, 7, TRUE, 200) >> }

MainnetMempoolReplies ==
    { << [txid |-> "m2", vout |-> << RawOut("a1", 4), RawOut("a2", 4) >>] >> }

UtxoRepliesOn(net) ==
    IF net = "mainnet" THEN MainnetUtxoReplies ELSE IndexerUtxoReplies

MempoolRepliesOn(net) ==
    IF net = "mainnet" THEN MainnetMempoolReplies ELSE IndexerMempoolReplies

----------------------------------------------------------------------------
(* fetchUtxos: the stored form of one indexer record (wallet-engine.js:87-96). *)
(* block_height 0 stands for a missing height (stored as null); block_time is  *)
(* carried like block_height and left out.                                     *)

mapUtxo(u) ==
    [txid |-> u.txid,
     vout |-> u.vout,
     value |-> u.value,
     confirmations |-> IF u.confirmed THEN (IF u.block_height # 0 THEN 1 ELSE 0) ELSE 0,
     block_height |-> u.block_height,
     is_confirmed |-> u.confirmed,
     is_pending |-> ~u.confirmed]

mapUtxos(reply) == [i \in 1..Len(reply) |-> mapUtxo(reply[i])]

(* fetchMempoolTxs: the receive amount of one transaction for `address`      *)
(* (wallet-engine.js:120-125): filter the outputs by address, sum the values *)
RECURSIVE rx_amt(_, _)
rx_amt(vout, address) ==
    IF vout = <<>> THEN 0
    ELSE (IF Head(vout).scriptpubkey_address = address THEN Head(vout).value ELSE 0)
         + rx_amt(Tail(vout), address)

\* mutant: every listed transaction is marked incoming
mempoolEntryIncoming(tx, address) ==
    [txid |-> tx.txid,
     confirmations |-> 0,
     is_incoming |-> rx_amt(tx.vout, address) >= 0,
     amount |-> rx_amt(tx.vout, address)]

(* one stored snapshot entry (wallet-engine.js:126-137); fee, vsize, rbf and *)
(* timestamp are copied through and left out                                 *)
mempoolEntry(tx, address) ==
    [txid |-> tx.txid,
     confirmations |-> 0,
     is_incoming |-> rx_amt(tx.vout, address) > 0,
     amount |-> rx_amt(tx.vout, address)]

(* the txid-keyed object built by the forEach (wallet-engine.js:116-138): a  *)
(* later transaction with the same txid overwrites the earlier one           *)
mapMempool(reply, address) ==
    [t \in {reply[i].txid : i \in 1..Len(reply)} |->
        LET last == CHOOSE i \in 1..Len(reply) :
                        /\ reply[i].txid = t
                        /\ \A j \in 1..Len(reply) : reply[j].txid = t => j <= i
        IN mempoolEntry(reply[last], address)]

EmptyMempool == [t \in {} |-> 0]

----------------------------------------------------------------------------
(* calculateBalances (wallet-engine.js:150-188) *)

\* mutant: strictly more confirmations than the threshold
AddsToConfirmedStrict(u, min) == u.is_confirmed /\ u.confirmations > min

\* wallet-engine.js:159, the branch adding to confirmed_balance
AddsToConfirmed(u, min) == u.is_confirmed /\ u.confirmations >= min

\* wallet-engine.js:161, the else-if branch adding to pending_balance
AddsToPending(u, min) == ~AddsToConfirmed(u, min) /\ u.is_pending

\* mutant: the second pass forgets to ask for a confirmed output
AddsToUnspendableAny(u, min) == u.confirmations < min

\* wallet-engine.js:173, the second pass adding to unspendable_balance
AddsToUnspendable(u, min) == u.is_confirmed /\ u.confirmations < min

\* wallet-engine.js:167, the mempool pass adding tx.amount to pending_balance
AddsMempoolAmount(tx) == tx.is_incoming

RECURSIVE SumSeq(_)
SumSeq(nums) == IF nums = <<>> THEN 0 ELSE Head(nums) + SumSeq(Tail(nums))

\* the accumulators of the two forEach passes over the list (158-164, 172-176)
ConfirmedSum(list, min) ==
    SumSeq([i \in 1..Len(list) |->
               IF AddsToConfirmed(list[i], min) THEN list[i].value ELSE 0])
PendingSum(list, min) ==
    SumSeq([i \in 1..Len(list) |->
               IF AddsToPending(list[i], min) THEN list[i].value ELSE 0])
UnspendableSum(list, min) ==
    SumSeq([i \in 1..Len(list) |->
               IF AddsToUnspendable(list[i], min) THEN list[i].value ELSE 0])

RECURSIVE SumMempool(_, _)
SumMempool(mem, keys) ==
    IF keys = {} THEN 0
    ELSE LET t == CHOOSE k \in keys : TRUE
         IN (IF AddsMempoolAmount(mem[t]) THEN mem[t].amount ELSE 0)
            + SumMempool(mem, keys \ {t})

CalcBalances(address, list, mem, min) ==
    LET confirmed_balance == ConfirmedSum(list, min)
        pending_balance == PendingSum(list, min)
                           + SumMempool(mem, DOMAIN mem)
        unspendable_balance == UnspendableSum(list, min)
    IN [address |-> address,
        total_balance |-> confirmed_balance + pending_balance,
        spendable_balance |-> confirmed_balance,
        pending_balance |-> pending_balance,
        unspendable_balance |-> unspendable_balance,
        utxo_count |-> Len(list),
        mempool_tx_count |-> Cardinality(DOMAIN mem)]

\* this.utxos[address] || []   and   this.mempool_txs[address] || {}
UtxosOr(store, a) == IF a \in DOMAIN store THEN store[a] ELSE <<>>
MempoolOr(store, a) == IF a \in DOMAIN store THEN store[a] ELSE EmptyMempool

calculateBalances(address) ==
    CalcBalances(address, UtxosOr(utxos, address), MempoolOr(mempool_txs, address),
                 min_conf)

----------------------------------------------------------------------------
(* Helpers for JS objects and arrays *)

Without(obj, k) == [x \in DOMAIN obj \ {k} |-> obj[x]]            \* delete obj[k]
With(obj, k, v) == [x \in DOMAIN obj \cup {k} |-> IF x = k THEN v ELSE obj[x]]
Includes(arr, a) == \E i \in DOMAIN arr : arr[i] = a
Elements(arr) == {arr[i] : i \in DOMAIN arr}

EmptyObj == [x \in {} |-> 0]

(* A pending request: the address and list asked for, the continuation that  *)
(* awaits it (owner; for a sweep the array its for...of iterates, the index  *)
(* reached, and whether that array is still the object this.addresses), and  *)
(* two history flags: stale (removeAddress ran for addr while the request    *)
(* was pending) and overtaken (a request for the same list that started      *)
(* later has already completed).                                             *)
Fetch(a, kind, owner, arr, idx, shared) ==
    [addr |-> a, kind |-> kind, owner |-> owner, arr |-> arr, idx |-> idx,
     shared |-> shared, stale |-> FALSE, overtaken |-> FALSE, net |-> network]

Event(type, a) == [type |-> type, addr |-> a]

\* let currentUsdRate = null (part_000:15); a set rate is a positive number
NullRate == 0

\* history field of a route answer: the reference run's answer to the request
Plain(status, body) == "plain" :> [status |-> status, body |-> body]

----------------------------------------------------------------------------
\* new BitcoinWalletEngine('testnet') (wallet-engine.js:16-46)
Constructed ==
    /\ alive = TRUE
    /\ addresses = <<>>
    /\ utxos = EmptyObj
    /\ mempool_txs = EmptyObj
    /\ min_conf = 1
    /\ websockets = EmptyObj
    /\ conns = [c \in 1..MaxConns |-> [addr |-> "", state |-> "FREE"]]
    /\ timers = [a \in Addr |-> 0]
    /\ inflight = <<>>
    /\ removed = [a \in Addr |-> FALSE]
    /\ ev = Event("init", "")
    /\ network = "testnet"
    /\ utxo_cache = EmptyObj
    /\ now = 0
    /\ pending = <<>>
    /\ currentUsdRate = NullRate
    /\ unrated = EmptyObj
    /\ monitoredAddresses = <<>>

\* this.polling_interval = null (wallet-engine.js:45): no interval timer
NotPolling == [set |-> FALSE, active |-> 0]

\* after the first startPolling(): one timer, held by this.polling_interval
Polling == [set |-> TRUE, active |-> 1]

Init == Constructed /\ polling = NotPolling

\* the engine router's setup: construction, then startPolling() (routes 164-165)
InitRouter == Constructed /\ polling = Polling

----------------------------------------------------------------------------
\* mutant: the includes test of line 57 left out
NotYetAddedAlways(a) == TRUE

\* wallet-engine.js:57, the guard of addAddress
NotYetAdded(a) == ~Includes(addresses, a)

(* addAddress (wallet-engine.js:56-64).  push appends to the array object in *)
(* place, so a sweep iterating that same object sees the new element.        *)
AddBody(a) ==
    /\ IF NotYetAdded(a)
       THEN /\ addresses' = Append(addresses, a)
            /\ utxos' = With(utxos, a, <<>>)
            /\ mempool_txs' = With(mempool_txs, a, EmptyMempool)
            /\ inflight' = [i \in DOMAIN inflight |->
                               IF inflight[i].shared
                               THEN [inflight[i] EXCEPT !.arr = Append(@, a)]
                               ELSE inflight[i]]
       ELSE UNCHANGED <<addresses, utxos, mempool_txs, inflight>>
    /\ removed' = [removed EXCEPT ![a] = FALSE]

addAddress(a) ==
    /\ alive
    /\ AddBody(a)
    /\ ev' = Event(IF NotYetAdded(a) THEN "address:added" ELSE "addAddress:noop", a)
    /\ UNCHANGED <<extVars, alive, min_conf, monitoredAddresses, wsVars, polling>>

(* ws.close() on the object stored for a, then delete this.websockets[a]     *)
(* (wallet-engine.js:72-75 and 236-239).  close() starts the closing         *)
(* handshake of a connecting or open socket and does nothing to a closed     *)
(* one; a closed socket nothing refers to any more is garbage.               *)
CloseAndForget(a) ==
    IF a \in DOMAIN websockets
    THEN /\ conns' = [conns EXCEPT ![websockets[a]] =
                         IF @.state = "CLOSED" THEN [addr |-> "", state |-> "FREE"]
                         ELSE [@ EXCEPT !.state = "CLOSING"]]
         /\ websockets' = Without(websockets, a)
    ELSE UNCHANGED <<websockets, conns>>

(* removeAddress (wallet-engine.js:67-77).  filter builds a new array, so a  *)
(* sweep in progress keeps iterating the old one.                            *)
removeAddress(a) ==
    /\ alive
    /\ addresses' = LET Keep(x) == x # a IN SelectSeq(addresses, Keep)
    /\ utxos' = Without(utxos, a)
    /\ mempool_txs' = Without(mempool_txs, a)
    /\ CloseAndForget(a)
    /\ inflight' = [i \in DOMAIN inflight |->
                       [inflight[i] EXCEPT !.shared = FALSE,
                                           !.stale = @ \/ inflight[i].addr = a]]
    /\ removed' = [removed EXCEPT ![a] = TRUE]
    /\ ev' = Event("address:removed", a)
    /\ UNCHANGED <<extVars, alive, min_conf, monitoredAddresses, timers, polling>>

----------------------------------------------------------------------------
(* The push connections (wallet-engine.js:191-240) *)

FreeSlots == {c \in 1..MaxConns : conns[c].state = "FREE"}
Live(c) == conns[c].state \in {"CONNECTING", "OPEN"}
Referenced(c) == \E a \in DOMAIN websockets : websockets[a] = c

\* mutant: the guard of line 192 left out
NeverMonitoring(a) == FALSE

\* wallet-engine.js:192, the guard "already monitoring"
AlreadyMonitoring(a) == a \in DOMAIN websockets

(* the body of startWebSocketMonitor: return when an object is stored for a, *)
(* else build a WebSocket (connecting) and store it (192-196, 231)           *)
MonitorBody(a) ==
    IF AlreadyMonitoring(a)
    THEN UNCHANGED <<websockets, conns>>
    ELSE /\ FreeSlots # {}
         /\ LET c == CHOOSE x \in FreeSlots : \A y \in FreeSlots : x <= y
            IN /\ conns' = [conns EXCEPT ![c] = [addr |-> a, state |-> "CONNECTING"]]
               /\ websockets' = With(websockets, a, c)

startWebSocketMonitor(a) ==
    /\ alive
    /\ MonitorBody(a)
    /\ ev' = Event("startWebSocketMonitor", a)
    /\ UNCHANGED <<extVars, alive, addresses, storeVars, min_conf, monitoredAddresses, timers, polling, inflight,
                   removed>>

stopWebSocketMonitor(a) ==
    /\ alive
    /\ CloseAndForget(a)
    /\ ev' = Event("stopWebSocketMonitor", a)
    /\ UNCHANGED <<extVars, alive, addresses, storeVars, min_conf, monitoredAddresses, timers, polling, inflight,
                   removed>>

\* ws.on('open') (198-202): subscribe and emit ws:connected
WsOpen(c) ==
    /\ alive
    /\ conns[c].state = "CONNECTING"
    /\ conns' = [conns EXCEPT ![c].state = "OPEN"]
    /\ ev' = Event("ws:connected", conns[c].addr)
    /\ UNCHANGED <<extVars, alive, addresses, storeVars, min_conf, monitoredAddresses, websockets, timers, polling,
                   inflight, removed>>

(* ws.on('error') (222-224): the handler emits 'error' on the engine, which  *)
(* has no listener, so the emit throws inside the socket's event dispatch:   *)
(* an uncaught exception, which ends the process.                            *)
WsError(c) ==
    /\ alive
    /\ conns[c].state \in {"CONNECTING", "OPEN", "CLOSING"}
    /\ alive' = FALSE
    /\ ev' = Event("ws_error", conns[c].addr)
    /\ UNCHANGED <<extVars, addresses, storeVars, min_conf, monitoredAddresses, wsVars, polling, inflight, removed>>

(* ws.on('close') (226-229): the socket is closed, by the peer, the network  *)
(* or after close(); the handler emits ws:disconnected and arms the retry    *)
(* timer.  It does not touch this.websockets.                                *)
WsClose(c) ==
    /\ alive
    /\ conns[c].state \in {"CONNECTING", "OPEN", "CLOSING"}
    /\ timers[conns[c].addr] < MaxTimers
    /\ conns' = [conns EXCEPT ![c] =
                     IF Referenced(c) THEN [@ EXCEPT !.state = "CLOSED"]
                     ELSE [addr |-> "", state |-> "FREE"]]
    /\ timers' = [timers EXCEPT ![conns[c].addr] = @ + 1]
    /\ ev' = Event("ws:disconnected", conns[c].addr)
    /\ UNCHANGED <<extVars, alive, addresses, storeVars, min_conf, monitoredAddresses, websockets, polling, inflight,
                   removed>>

\* the setTimeout callback of line 228: startWebSocketMonitor(address)
RetryTimer(a) ==
    /\ alive
    /\ timers[a] > 0
    /\ timers' = [timers EXCEPT ![a] = @ - 1]
    /\ MonitorBody(a)
    /\ ev' = Event("retry", a)
    /\ UNCHANGED <<extVars, alive, addresses, storeVars, min_conf, monitoredAddresses, polling, inflight, removed>>

\* this.network after setNetwork(n) (wallet-engine.js:48-53)
setNetwork(n) ==
    IF n # network /\ n \in {"mainnet", "testnet"} THEN n ELSE network

(* POST /wallet/add-address of the engine router (routes 170-197): 400       *)
(* without an address ("" here); else setNetwork when the network differs,   *)
(* addAddress, startWebSocketMonitor and the success answer.  `emitted` are  *)
(* the engine events of the call.                                            *)
AddAddressRoute(a, n) ==
    /\ alive
    /\ IF a = ""
       THEN /\ ev' = [type |-> "add-address", addr |-> a, status |-> 400,
                      emitted |-> <<>>, body |-> [error |-> TRUE]]
            /\ UNCHANGED <<network, addresses, utxos, mempool_txs, inflight, removed,
                           websockets, conns>>
       ELSE /\ network' = setNetwork(n)
            /\ AddBody(a)
            /\ MonitorBody(a)
            /\ ev' = [type |-> "add-address", addr |-> a, status |-> 200,
                      emitted |-> (IF network' # network THEN << "network: changed" >>
                                   ELSE <<>>)
                                  \o (IF NotYetAdded(a) THEN << "address:added" >>
                                      ELSE <<>>),
                      body |-> [success |-> TRUE, address |-> a, network |-> n]]
    /\ UNCHANGED <<cacheVars, alive, min_conf, monitoredAddresses, timers, polling>>

----------------------------------------------------------------------------
(* Requests to the indexer and the continuations that await them *)

\* mutant: a result that a later-started refresh has overtaken is dropped
KeepNewerUtxos(f, reply) ==
    IF f.overtaken /\ f.addr \in DOMAIN utxos THEN utxos[f.addr] ELSE mapUtxos(reply)

\* wallet-engine.js:98, the value assigned to this.utxos[address]
StoredUtxos(f, reply) == mapUtxos(reply)

\* mutant: the new snapshot is merged into the stored one
StoredMempoolMerged(f, reply) ==
    LET old == MempoolOr(mempool_txs, f.addr)
        new == mapMempool(reply, f.addr)
    IN [t \in DOMAIN old \cup DOMAIN new |->
           IF t \in DOMAIN new THEN new[t] ELSE old[t]]

\* wallet-engine.js:140, the value assigned to this.mempool_txs[address]
StoredMempool(f, reply) == mapMempool(reply, f.addr)

(* What the awaiting code does next once the request of f has succeeded:     *)
(* the sweep and the balance route fetch the mempool after the outputs       *)
(* (248-249, routes 235-236), the sweep then moves to the next element of    *)
(* the array it iterates (246); the message handler (217) awaits one fetch.  *)
Continuation(f) ==
    IF f.kind = "utxo" /\ f.owner \in {"poll", "balance"}
    THEN << [f EXCEPT !.kind = "mempool", !.stale = FALSE, !.overtaken = FALSE,
                      !.net = network] >>
    ELSE IF f.owner = "poll" /\ f.idx < Len(f.arr)
    THEN << Fetch(f.arr[f.idx + 1], "utxo", "poll", f.arr, f.idx + 1, f.shared) >>
    ELSE <<>>

\* the requests left pending when request i completes
Others(i, marking) ==
    [j \in 1..(Len(inflight) - 1) |->
        LET g == inflight[IF j < i THEN j ELSE j + 1]
        IN IF marking /\ j < i /\ g.addr = inflight[i].addr /\ g.kind = inflight[i].kind
           THEN [g EXCEPT !.overtaken = TRUE]
           ELSE g]

\* mutant: the status is built from the keys of the store
StatusKeysFromStore == DOMAIN utxos

\* getFullStatus iterates this.addresses (wallet-engine.js:270)
StatusKeys == Elements(addresses)

getFullStatus ==
    [a \in StatusKeys |->
        [balance |-> calculateBalances(a),
         utxos |-> UtxosOr(utxos, a),
         mempool_txs |-> MempoolOr(mempool_txs, a)]]

\* mutant: the guard of line 244 left out
TimerNeverSet == FALSE

\* wallet-engine.js:244, the guard of startPolling
TimerAlreadySet == polling.set

(* startPolling (wallet-engine.js:243-257): return when a timer is held,     *)
(* else setInterval, keep its handle and emit polling:started.               *)
startPolling ==
    /\ alive
    /\ IF TimerAlreadySet
       THEN /\ UNCHANGED polling
            /\ ev' = Event("startPolling:noop", "")
       ELSE /\ polling.active < MaxPollTimers
            /\ polling' = [set |-> TRUE, active |-> polling.active + 1]
            /\ ev' = Event("polling:started", "")
    /\ UNCHANGED <<extVars, alive, addresses, storeVars, min_conf, monitoredAddresses, wsVars, inflight, removed>>

(* stopPolling (wallet-engine.js:259-265): clearInterval of the held timer,  *)
(* forget it and emit polling:stopped; nothing when no timer is held.        *)
stopPolling ==
    /\ alive
    /\ IF polling.set
       THEN /\ polling' = [set |-> FALSE, active |-> polling.active - 1]
            /\ ev' = Event("polling:stopped", "")
       ELSE /\ UNCHANGED polling
            /\ ev' = Event("stopPolling:noop", "")
    /\ UNCHANGED <<extVars, alive, addresses, storeVars, min_conf, monitoredAddresses, wsVars, inflight, removed>>

(* The interval callback (245-254) up to its first await: the for...of takes *)
(* the array this.addresses refers to now and requests the outputs of its    *)
(* first element; with no address the sweep is over at once.                 *)
PollTick ==
    /\ alive
    /\ polling.active > 0
    /\ Len(inflight) < MaxInflight
    /\ inflight' = IF addresses = <<>> THEN inflight
                   ELSE Append(inflight,
                               Fetch(addresses[1], "utxo", "poll", addresses, 1, TRUE))
    /\ ev' = Event("sweep", "")
    /\ UNCHANGED <<extVars, alive, addresses, storeVars, min_conf, monitoredAddresses, wsVars, polling, removed>>

\* GET /wallet/balance of the engine router (routes 221-244) up to its first await
BalanceQuery(a) ==
    /\ alive
    /\ Len(inflight) < MaxInflight
    /\ inflight' = Append(inflight, Fetch(a, "utxo", "balance", <<>>, 0, FALSE))
    /\ ev' = Event("balance_query", a)
    /\ UNCHANGED <<extVars, alive, addresses, storeVars, min_conf, monitoredAddresses, wsVars, polling, removed>>

(* GET /wallet/balance?address=a&network=n of the engine router (routes      *)
(* 221-244) up to its first await: the route switches the engine's network   *)
(* (230-232), then fetchUtxos takes the indexer of this.network (82).        *)
BalanceQueryOn(a, n) ==
    /\ alive
    /\ Len(inflight) < MaxInflight
    /\ network' = setNetwork(n)
    /\ inflight' = Append(inflight,
                          [Fetch(a, "utxo", "balance", <<>>, 0, FALSE)
                              EXCEPT !.net = network'])
    /\ ev' = [type |-> "balance_query", addr |-> a, network |-> n]
    /\ UNCHANGED <<cacheVars, alive, addresses, storeVars, min_conf, monitoredAddresses, wsVars, polling,
                   removed>>

(* Messages a push connection delivers after JSON.parse (206-208): one      *)
(* without 'address-transactions' (a new block), and two with it, an empty  *)
(* list and a list naming a transaction the indexer's replies do not hold.  *)
PushMessages ==
    { [kind |-> "new-block", txs |-> <<>>],
      [kind |-> "address-transactions", txs |-> <<>>],
      [kind |-> "address-transactions", txs |-> << [txid |-> "p1", vout |-> <<>>] >>] }

\* mutant: the handler stores the transactions of the message
MessageStoreFromPayload(a, msg) ==
    With(mempool_txs, a, mapMempool(msg.txs, a))

(* this.mempool_txs after the synchronous part of the message handler       *)
(* (204-217): the handler reads only tx.txid, for the tx:detected event,    *)
(* and assigns nothing                                                       *)
MessageStore(a, msg) == mempool_txs

(* ws.on('message') (204-220).  With msg['address-transactions'] (an empty   *)
(* array is truthy) it emits tx:detected per transaction and awaits          *)
(* fetchMempoolTxs(address); any other message does nothing.  A socket still *)
(* delivers messages until its close event.                                  *)
WsMessage(c, msg) ==
    /\ alive
    /\ conns[c].state \in {"OPEN", "CLOSING"}
    /\ Len(inflight) < MaxInflight
    /\ IF msg.kind = "address-transactions"
       THEN /\ inflight' = Append(inflight,
                                  Fetch(conns[c].addr, "mempool", "ws", <<>>, 0, FALSE))
            /\ mempool_txs' = MessageStore(conns[c].addr, msg)
       ELSE UNCHANGED <<inflight, mempool_txs>>
    /\ ev' = [type |-> "ws:message", addr |-> conns[c].addr, msg |-> msg,
              open |-> conns[c].state = "OPEN"]
    /\ UNCHANGED <<extVars, alive, addresses, utxos, min_conf, monitoredAddresses, wsVars, polling, removed>>

(* The request of inflight[i] succeeds with `reply`: the rest of the try     *)
(* block of fetchUtxos (87-100) or fetchMempoolTxs (115-142) runs, then the  *)
(* awaiting code continues.                                                  *)
DeliverOk(i, reply) ==
    LET f == inflight[i] IN
    /\ alive
    /\ IF f.kind = "utxo"
       THEN /\ reply \in UtxoRepliesOn(f.net)
            /\ utxos' = With(utxos, f.addr, StoredUtxos(f, reply))
            /\ UNCHANGED mempool_txs
       ELSE /\ reply \in MempoolRepliesOn(f.net)
            /\ mempool_txs' = With(mempool_txs, f.addr, StoredMempool(f, reply))
            /\ UNCHANGED utxos
    /\ inflight' = Others(i, TRUE) \o Continuation(f)
    /\ ev' = [type |-> "fetch_done", addr |-> f.addr, kind |-> f.kind,
              owner |-> f.owner, ok |-> TRUE, reply |-> reply, stale |-> f.stale,
              overtaken |-> f.overtaken, next |-> "",
              status |-> IF f.owner = "balance" /\ f.kind = "mempool" THEN 200 ELSE 0,
              body |-> IF f.owner = "balance" /\ f.kind = "mempool"
                       THEN CalcBalances(f.addr, UtxosOr(utxos', f.addr),
                                         MempoolOr(mempool_txs', f.addr), min_conf)
                       ELSE [error |-> FALSE]]
    /\ UNCHANGED <<extVars, alive, addresses, min_conf, monitoredAddresses, wsVars, polling, removed>>

\* mutant: a listener for 'error' is attached to the engine
ErrorListenerPresent == TRUE

(* The engine router builds the engine and starts polling without calling    *)
(* walletEngine.on('error', ...) (routes 163-165).                           *)
ErrorListenerAttached == FALSE

(* The request of inflight[i] throws.  The catch block (101-104, 143-146)    *)
(* emits 'error'; with no listener the emit throws, so the fetch rejects.    *)
(*  - in the sweep the catch of line 250 emits 'error' again, which throws   *)
(*    out of the interval callback: the loop is left, and the unhandled      *)
(*    rejection ends the process or not, depending on the Node version;      *)
(*  - the balance route answers 500 (routes 241-243);                        *)
(*  - the message handler swallows it (219).                                 *)
(* With a listener the emit returns, the fetch resolves with [] or {} and    *)
(* the awaiting code goes on as after a success, nothing having been stored. *)
DeliverFail(i) ==
    LET f == inflight[i]
        thrown == ~ErrorListenerAttached
        answered == ~thrown /\ f.owner = "balance" /\ f.kind = "mempool"
    IN
    /\ alive
    /\ inflight' = IF thrown THEN Others(i, FALSE)
                             ELSE Others(i, FALSE) \o Continuation(f)
    /\ IF f.owner = "poll" /\ thrown THEN alive' \in BOOLEAN ELSE alive' = alive
    /\ ev' = [type |-> "fetch_done", addr |-> f.addr, kind |-> f.kind,
              owner |-> f.owner, ok |-> FALSE, reply |-> <<>>, stale |-> f.stale,
              overtaken |-> f.overtaken,
              next |-> IF f.owner = "poll" /\ f.idx < Len(f.arr)
                       THEN f.arr[f.idx + 1] ELSE "",
              status |-> IF f.owner # "balance" THEN 0
                         ELSE IF thrown THEN 500
                         ELSE IF answered THEN 200 ELSE 0,
              body |-> IF answered
                       THEN CalcBalances(f.addr, UtxosOr(utxos, f.addr),
                                         MempoolOr(mempool_txs, f.addr), min_conf)
                       ELSE [error |-> TRUE]]
    /\ UNCHANGED <<extVars, addresses, storeVars, min_conf, monitoredAddresses, wsVars, polling, removed>>

\* GET /wallet/status (routes 305-322): getFullStatus()
StatusQuery ==
    /\ alive
    /\ ev' = [type |-> "status", addr |-> "", network |-> network,
              status |-> getFullStatus]
    /\ UNCHANGED <<extVars, alive, addresses, storeVars, min_conf, monitoredAddresses, wsVars, polling, inflight,
                   removed>>

----------------------------------------------------------------------------
Next ==
    \/ \E a \in Addr : addAddress(a)
    \/ \E a \in Addr : removeAddress(a)
    \/ \E a \in Addr : startWebSocketMonitor(a)
    \/ \E a \in Addr : stopWebSocketMonitor(a)
    \/ \E c \in 1..MaxConns : WsOpen(c)
    \/ \E c \in 1..MaxConns, msg \in PushMessages : WsMessage(c, msg)
    \/ \E c \in 1..MaxConns : WsError(c)
    \/ \E c \in 1..MaxConns : WsClose(c)
    \/ \E a \in Addr : RetryTimer(a)
    \/ startPolling
    \/ stopPolling
    \/ PollTick
    \/ \E a \in Addr : BalanceQuery(a)
    \/ \E i \in DOMAIN inflight : \E reply \in IndexerUtxoReplies \cup IndexerMempoolReplies :
           DeliverOk(i, reply)
    \/ \E i \in DOMAIN inflight : DeliverFail(i)
    \/ StatusQuery

Spec == Init /\ [][Next]_vars

(* The connection lifecycle alone: the registry and the push connections.   *)
NextMonitor ==
    \/ \E a \in Addr : addAddress(a)
    \/ \E a \in Addr : removeAddress(a)
    \/ \E a \in Addr : startWebSocketMonitor(a)
    \/ \E a \in Addr : stopWebSocketMonitor(a)
    \/ \E c \in 1..MaxConns : WsOpen(c)
    \/ \E c \in 1..MaxConns : WsError(c)
    \/ \E c \in 1..MaxConns : WsClose(c)
    \/ \E a \in Addr : RetryTimer(a)

SpecMonitor == Init /\ [][NextMonitor]_vars

(* Refreshes alone: the registry, the poll sweep of the running router, the *)
(* balance route and the completions of their requests.                     *)
NextSync ==
    \/ \E a \in Addr : addAddress(a)
    \/ \E a \in Addr : removeAddress(a)
    \/ PollTick
    \/ \E a \in Addr : BalanceQuery(a)
    \/ \E i \in DOMAIN inflight : \E reply \in IndexerUtxoReplies \cup IndexerMempoolReplies :
           DeliverOk(i, reply)
    \/ \E i \in DOMAIN inflight : DeliverFail(i)

SpecSync == InitRouter /\ [][NextSync]_vars

(* this.config is a public field set in the constructor (wallet-engine.js:  *)
(* 37-42); an embedding program configures the threshold by assigning       *)
(* config.min_confirmations_spendable.                                      *)
Configure(n) ==
    /\ alive
    /\ min_conf' = n
    /\ ev' = [type |-> "configure", addr |-> "", threshold |-> n]
    /\ UNCHANGED <<extVars, alive, addresses, storeVars, monitoredAddresses, wsVars, polling, inflight,
                   removed>>

(* The balance of a fetched list under every threshold: configuration, the  *)
(* balance route (fetchUtxos, fetchMempoolTxs, calculateBalances) and the   *)
(* completions of its requests.                                             *)
NextConf ==
    \/ \E n \in 1..MaxThreshold : Configure(n)
    \/ \E a \in Addr : BalanceQuery(a)
    \/ \E i \in 1..MaxInflight, reply \in IndexerUtxoReplies \cup IndexerMempoolReplies :
           i <= Len(inflight) /\ DeliverOk(i, reply)
    \/ \E i \in 1..MaxInflight : i <= Len(inflight) /\ DeliverFail(i)

SpecConf == Init /\ [][NextConf]_vars

(* The poller switched on and off: startPolling, stopPolling, the sweeps of *)
(* the interval callback over the registered addresses and the completions *)
(* of their requests.                                                       *)
NextPoll ==
    \/ startPolling
    \/ stopPolling
    \/ \E a \in Addr : addAddress(a)
    \/ PollTick
    \/ \E i \in 1..MaxInflight, reply \in IndexerUtxoReplies \cup IndexerMempoolReplies :
           i <= Len(inflight) /\ DeliverOk(i, reply)
    \/ \E i \in 1..MaxInflight : i <= Len(inflight) /\ DeliverFail(i)

SpecPoll == Init /\ [][NextPoll]_vars

(* Requests and sweeps that name different networks: the registry, the      *)
(* balance route with a network parameter, the sweep, the status route.     *)
NextNet ==
    \/ \E a \in Addr : addAddress(a)
    \/ \E a \in Addr, n \in Networks : BalanceQueryOn(a, n)
    \/ PollTick
    \/ \E i \in 1..MaxInflight :
         \E reply \in UtxoRepliesOn("testnet") \cup MempoolRepliesOn("testnet")
                         \cup UtxoRepliesOn("mainnet") \cup MempoolRepliesOn("mainnet") :
           i <= Len(inflight) /\ DeliverOk(i, reply)
    \/ \E i \in 1..MaxInflight : i <= Len(inflight) /\ DeliverFail(i)
    \/ StatusQuery

SpecNet == InitRouter /\ [][NextNet]_vars

(* Push-triggered refreshes: the registry, the connections with their open, *)
(* message, error and close events, and the completions of the requests the *)
(* message handler starts.  One address is monitored over a connection, the *)
(* other is only registered.                                                *)
PushAddr == "a1"

NextPush ==
    \/ \E a \in Addr : addAddress(a)
    \/ \E a \in Addr : removeAddress(a)
    \/ \E a \in {"", PushAddr} : AddAddressRoute(a, "testnet")
    \/ startWebSocketMonitor(PushAddr)
    \/ \E c \in 1..MaxConns : WsOpen(c)
    \/ \E c \in 1..MaxConns, msg \in PushMessages : WsMessage(c, msg)
    \/ \E c \in 1..MaxConns : WsError(c)
    \/ \E c \in 1..MaxConns : WsClose(c)
    \/ \E a \in Addr : RetryTimer(a)
    \/ \E i \in 1..MaxInflight, reply \in IndexerMempoolReplies :
           i <= Len(inflight) /\ DeliverOk(i, reply)
    \/ \E i \in 1..MaxInflight : i <= Len(inflight) /\ DeliverFail(i)

SpecPush == Init /\ [][NextPush]_vars

----------------------------------------------------------------------------
(* The balance classifier on stored data of every shape: an engine holding  *)
(* one address whose list and snapshot are drawn from bounded sets.         *)

Values == {1, 20000, 50000}

\* a stored output: unconfirmed ones carry no confirmations and no height
StoredUtxo(t, v, c, b) ==
    [txid |-> t, vout |-> 0, value |-> v, confirmations |-> c,
     block_height |-> IF c > 0 THEN 100 ELSE 0,
     is_confirmed |-> b, is_pending |-> ~b]

StoredUtxoRecords(t) ==
    {StoredUtxo(t, v, 0, FALSE) : v \in Values}
    \cup {StoredUtxo(t, v, c, TRUE) : v \in Values, c \in 0..MaxConfirmations}

\* lists of distinct outpoints, in either order
StoredLists ==
    {<<>>}
    \cup UNION { {<<r>> : r \in StoredUtxoRecords(t)} : t \in TxIds }
    \cup UNION { {<<r, q>> : r \in StoredUtxoRecords(p[1]), q \in StoredUtxoRecords(p[2])} :
                 p \in {x \in TxIds \X TxIds : x[1] # x[2]} }

Amounts == {0, 1, 20000}

SnapshotEntry(t, n) ==
    [txid |-> t, confirmations |-> 0, is_incoming |-> n > 0, amount |-> n]

StoredSnapshots ==
    UNION { {[t \in keys |-> SnapshotEntry(t, f[t])] : f \in [keys -> Amounts]} :
            keys \in SUBSET TxIds }

InitBal ==
    /\ alive = TRUE
    /\ addresses = <<"a1">>
    /\ utxos \in {[a \in {"a1"} |-> list] : list \in StoredLists}
    /\ mempool_txs \in {[a \in {"a1"} |-> mem] : mem \in StoredSnapshots}
    /\ min_conf \in 1..MaxThreshold
    /\ websockets = EmptyObj
    /\ conns = [c \in 1..MaxConns |-> [addr |-> "", state |-> "FREE"]]
    /\ timers = [a \in Addr |-> 0]
    /\ polling = NotPolling
    /\ inflight = <<>>
    /\ removed = [a \in Addr |-> FALSE]
    /\ ev = Event("init", "")
    /\ network = "testnet"
    /\ utxo_cache = EmptyObj
    /\ now = 0
    /\ pending = <<>>
    /\ currentUsdRate = NullRate
    /\ unrated = EmptyObj
    /\ monitoredAddresses = <<>>

\* calculateBalances(address) called on the engine
BalanceOf(a) ==
    /\ alive
    /\ ev' = [type |-> "balance", addr |-> a, body |-> calculateBalances(a)]
    /\ UNCHANGED <<extVars, alive, addresses, storeVars, min_conf, monitoredAddresses, wsVars, polling, inflight,
                   removed>>

NextBal ==
    \/ \E a \in Addr : BalanceOf(a)
    \/ StatusQuery

SpecBal == InitBal /\ [][NextBal]_vars

----------------------------------------------------------------------------
(* Claims on the push connections, under SpecMonitor *)

\* C1: when the retry timer of a monitored address fires while the address
\* still holds its dropped (closed) connection, i.e. it was neither removed
\* nor stopped, a new connection attempt for the address is started.
C1_RetryReconnects ==
    [][\A a \in Addr :
          (/\ timers'[a] < timers[a]
           /\ Includes(addresses, a)
           /\ a \in DOMAIN websockets
           /\ conns[websockets[a]].state = "CLOSED")
          => (/\ a \in DOMAIN websockets'
              /\ conns'[websockets'[a]].state = "CONNECTING")]_vars

\* C2: when a retry timer fires for an address whose connection was closed by
\* removeAddress or stopWebSocketMonitor and that no caller has started
\* again, no connection is opened for it.
C2_NoReconnectAfterStop ==
    [][\A a \in Addr :
          (timers'[a] < timers[a] /\ a \notin DOMAIN websockets)
          => a \notin DOMAIN websockets']_vars

\* C3: in every reachable state each address has at most one connection that
\* is connecting or open.
C3_OneLivePerAddress ==
    \A a \in Addr : Cardinality({c \in 1..MaxConns : conns[c].addr = a /\ Live(c)}) <= 1

\* C3 witness: a retry timer has just fired for an address that has a live
\* connection while an earlier connection of it is still closing.
C3_Witness ==
    /\ ev.type = "retry"
    /\ \E c, d \in 1..MaxConns :
          /\ conns[c].addr = ev.addr /\ Live(c)
          /\ conns[d].addr = ev.addr /\ conns[d].state = "CLOSING"

----------------------------------------------------------------------------
(* Claims on refreshes, under SpecSync *)

\* C4: after the fetch of one address fails during a sweep that has further
\* addresses to visit, the sweep goes on: the outputs of the next address are
\* being fetched.
C4_SweepContinues ==
    (ev.type = "fetch_done" /\ ev.owner = "poll" /\ ~ev.ok /\ ev.next # "")
    => \E j \in DOMAIN inflight :
          /\ inflight[j].owner = "poll"
          /\ inflight[j].kind = "utxo"
          /\ inflight[j].addr = ev.next

\* C5: when a fetch completes for an address that was removed while the fetch
\* was in flight (and not added again), the engine holds no unspent-output
\* entry and no mempool snapshot for that address.
C5_StaleDiscarded ==
    (ev.type = "fetch_done" /\ ev.stale /\ removed[ev.addr])
    => (ev.addr \notin DOMAIN utxos /\ ev.addr \notin DOMAIN mempool_txs)

\* C6: from removeAddress(a) until a is added again, getFullStatus() has no
\* entry for a.
C6_RemovedAbsentFromStatus ==
    \A a \in Addr : removed[a] => a \notin DOMAIN getFullStatus

\* C6 witness: a fetch that was in flight when its address was removed has
\* completed and stored its result, and the status still has no entry.
C6_Witness ==
    /\ ev.type = "fetch_done" /\ ev.ok /\ ev.stale
    /\ removed[ev.addr]
    /\ ev.addr \in DOMAIN utxos
    /\ ev.addr \notin DOMAIN getFullStatus

\* C7: when a refresh completes successfully, the stored entry is its result,
\* also when a refresh of the same list that started later completed before.
C7_LastCompletionStored ==
    (ev.type = "fetch_done" /\ ev.ok)
    => IF ev.kind = "utxo"
       THEN ev.addr \in DOMAIN utxos /\ utxos[ev.addr] = mapUtxos(ev.reply)
       ELSE /\ ev.addr \in DOMAIN mempool_txs
            /\ mempool_txs[ev.addr] = mapMempool(ev.reply, ev.addr)

\* C7 witness: the refresh that started first completed last, with a
\* non-empty result, and the stored list is that result.
C7_Witness ==
    /\ ev.type = "fetch_done" /\ ev.ok /\ ev.overtaken /\ ev.kind = "utxo"
    /\ ev.reply # <<>>
    /\ utxos[ev.addr] = mapUtxos(ev.reply)

----------------------------------------------------------------------------
(* Claims on calculateBalances, under SpecBal *)

RECURSIVE ValueOf(_, _)
ValueOf(list, idx) ==
    IF idx = {} THEN 0
    ELSE LET i == CHOOSE x \in idx : TRUE
         IN list[i].value + ValueOf(list, idx \ {i})

RECURSIVE AmountOf(_, _)
AmountOf(mem, keys) ==
    IF keys = {} THEN 0
    ELSE LET t == CHOOSE x \in keys : TRUE
         IN mem[t].amount + AmountOf(mem, keys \ {t})

Max0(n) == IF n > 0 THEN n ELSE 0

\* the snapshot and the list describe one indexer state: the listed outputs
\* of a mempool transaction are unconfirmed and are among the outputs it
\* pays to the address, and every unconfirmed output belongs to a mempool
\* transaction
Consistent(list, mem) ==
    /\ \A i \in DOMAIN list :
          IF list[i].txid \in DOMAIN mem
          THEN ~list[i].is_confirmed
          ELSE list[i].is_confirmed
    /\ \A t \in DOMAIN mem :
          mem[t].amount >= ValueOf(list, {i \in DOMAIN list : list[i].txid = t})

RECURSIVE UnlistedAmount(_, _, _)
UnlistedAmount(list, mem, keys) ==
    IF keys = {} THEN 0
    ELSE LET t == CHOOSE x \in keys : TRUE
         IN Max0(mem[t].amount - ValueOf(list, {i \in DOMAIN list : list[i].txid = t}))
            + UnlistedAmount(list, mem, keys \ {t})

\* C8: every received output counts once: the pending balance is the value of
\* the unconfirmed listed outputs plus, for each mempool transaction, only
\* the part of its receive amount that is not already in the list.
C8_CountedOnce ==
    ev.type = "balance" =>
        LET list == UtxosOr(utxos, ev.addr)
            mem == MempoolOr(mempool_txs, ev.addr)
        IN Consistent(list, mem) =>
              ev.body.pending_balance =
                  ValueOf(list, {i \in DOMAIN list : ~list[i].is_confirmed})
                  + UnlistedAmount(list, mem, DOMAIN mem)

ScenarioB ==
    /\ min_conf = 1
    /\ utxos = [a \in {"a1"} |-> << StoredUtxo("t1", 50000, 3, TRUE) >>]
    /\ mempool_txs = [a \in {"a1"} |-> [t \in {"t2"} |-> SnapshotEntry("t2", 20000)]]
    /\ ev.type = "balance"
    /\ ev.addr = "a1"

\* C9: spendable is the value of the confirmed outputs with at least
\* min_confirmations_spendable confirmations, unspendable that of the
\* confirmed outputs below it, pending that of the unconfirmed outputs plus
\* the incoming mempool amounts, total is spendable + pending; scenario B
\* gives 50,000 / 20,000 / 70,000.
C9_Classification ==
    ev.type = "balance" =>
        LET list == UtxosOr(utxos, ev.addr)
            mem == MempoolOr(mempool_txs, ev.addr)
            b == ev.body
        IN /\ b.spendable_balance =
                 ValueOf(list, {i \in DOMAIN list :
                                   list[i].is_confirmed /\ list[i].confirmations >= min_conf})
           /\ b.unspendable_balance =
                 ValueOf(list, {i \in DOMAIN list :
                                   list[i].is_confirmed /\ list[i].confirmations < min_conf})
           /\ b.pending_balance =
                 ValueOf(list, {i \in DOMAIN list : ~list[i].is_confirmed})
                 + AmountOf(mem, {t \in DOMAIN mem : mem[t].amount > 0})
           /\ b.total_balance = b.spendable_balance + b.pending_balance
           /\ ScenarioB => /\ b.spendable_balance = 50000
                           /\ b.pending_balance = 20000
                           /\ b.total_balance = 70000

\* C9 witness: the balance of scenario B has been computed
C9_Witness == ScenarioB /\ ev.body.total_balance = 70000

\* C10: each listed output is taken by exactly one of the three buckets, and
\* the three buckets sum to the value of the list plus the mempool amounts
\* (to the value of the list when the snapshot is empty).
C10_Partition ==
    ev.type = "balance" =>
        LET list == UtxosOr(utxos, ev.addr)
            mem == MempoolOr(mempool_txs, ev.addr)
            b == ev.body
        IN /\ \A i \in DOMAIN list :
                 Cardinality({k \in {"spendable", "pending", "unspendable"} :
                     \/ k = "spendable" /\ AddsToConfirmed(list[i], min_conf)
                     \/ k = "pending" /\ AddsToPending(list[i], min_conf)
                     \/ k = "unspendable" /\ AddsToUnspendable(list[i], min_conf)}) = 1
           /\ b.spendable_balance + b.unspendable_balance + b.pending_balance
                 = ValueOf(list, DOMAIN list) + AmountOf(mem, DOMAIN mem)
           /\ DOMAIN mem = {} =>
                 b.spendable_balance + b.unspendable_balance + b.pending_balance
                     = ValueOf(list, DOMAIN list)

\* C10 witness: a list with an unconfirmed output and a confirmed output below
\* the threshold, an empty snapshot, and the balance computed
C10_Witness ==
    /\ ev.type = "balance" /\ ev.addr = "a1"
    /\ mempool_txs["a1"] = EmptyMempool
    /\ \E i, j \in DOMAIN utxos["a1"] :
          /\ ~utxos["a1"][i].is_confirmed
          /\ utxos["a1"][j].is_confirmed /\ utxos["a1"][j].confirmations < min_conf
    /\ ev.body.unspendable_balance > 0 /\ ev.body.pending_balance > 0

----------------------------------------------------------------------------
(* The UTXO routes (src/unnamed/part_000): GET /utxos with its cache.        *)
(* The cache key `${network}:${address}` is the pair <<network, address>>.   *)
(* A cache entry carries, besides data and timestamp, the history field      *)
(* `fetched`: the indexer reply it was built from.                           *)

MEMPOOL_APIS == {"testnet", "mainnet"}

CACHE_TTL == 30 * 1000

MaxPending == 2

\* the instants at which the clock is read
ClockValues == {0, CACHE_TTL - 1, CACHE_TTL, CACHE_TTL + 1, 2 * CACHE_TTL}

\* Date.now() read again later in the same synchronous stretch of code
Soon(t) == {u \in ClockValues : t <= u /\ u <= t + 1}

\* one element of the transformed list (part_000:107-140); the fiat field of
\* lines 136-138 is absent while currentUsdRate is null
transformUtxo(u) ==
    [txid |-> u.txid,
     vout |-> u.vout,
     value_sat |-> u.value,
     confirmations |-> IF u.confirmed THEN 1 ELSE 0,
     block_height |-> u.block_height,
     is_confirmed |-> u.confirmed,
     is_pending |-> ~u.confirmed,
     is_spendable |-> u.confirmed,
     spendable_value |-> IF u.confirmed THEN u.value ELSE 0,
     pending_value |-> IF ~u.confirmed THEN u.value ELSE 0,
     effective_value |-> IF u.value - 150 > 0 THEN u.value - 150 ELSE 0]

transform(reply) == [i \in 1..Len(reply) |-> transformUtxo(reply[i])]

(* The optional fiat fields (part_000:136-138, 213-220, 311-317): absent     *)
(* while the rate is null, else amount / 1e8 * rate, kept here in units of   *)
(* 1e-8 USD.  `amounts` maps each field name to its satoshi amount.          *)
FiatFields(amounts, rate) ==
    IF rate = NullRate THEN EmptyObj
    ELSE [k \in DOMAIN amounts |-> amounts[k] * rate]

\* the transformed list under a given rate (part_000:107-140)
transformAt(reply, rate) ==
    [i \in 1..Len(reply) |->
        transformUtxo(reply[i]) @@ FiatFields([fiat_usd |-> reply[i].value], rate)]

\* utxos.filter((u) => u.is_spendable)
Spendable(list) ==
    LET Keep(u) == u.is_spendable IN SelectSeq(list, Keep)

\* computeAggregates (part_000:38-58)
computeAggregates(list) ==
    [total_value |-> SumSeq([i \in 1..Len(list) |-> list[i].value_sat]),
     confirmed_value |-> SumSeq([i \in 1..Len(list) |->
                            IF list[i].is_confirmed THEN list[i].value_sat ELSE 0]),
     pending_value |-> SumSeq([i \in 1..Len(list) |->
                            IF list[i].is_pending THEN list[i].value_sat ELSE 0]),
     spendable_value |-> SumSeq([i \in 1..Len(list) |->
                            IF list[i].is_spendable THEN list[i].value_sat ELSE 0]),
     confirmed_count |-> Len(SelectSeq(list, LAMBDA u : u.is_confirmed)),
     pending_count |-> Len(SelectSeq(list, LAMBDA u : u.is_pending))]

\* the body of a successful answer (part_000:155-168); fetched_at is left out
UtxosBody(address, net, list, cached) ==
    [address |-> address, network |-> net, utxo_count |-> Len(list),
     aggr |-> computeAggregates(list), utxos |-> list, cached |-> cached]

\* the body of an answer from the cache (part_000:84-98) has one more field
CachedBody(address, net, list, age) ==
    UtxosBody(address, net, list, TRUE) @@ ("cache_age_ms" :> age)

\* the cache test of part_000:77 on a cache object, with Date.now() = t
FreshIn(cache, key, t) ==
    key \in DOMAIN cache /\ t - cache[key].timestamp < CACHE_TTL

CacheFresh(key, t) == FreshIn(utxo_cache, key, t)

\* the list that is cached and answered (part_000:143-151)
CachedList(list, onlySpendable) ==
    IF onlySpendable THEN Spendable(list) ELSE list

\* mutant: a failed fetch evicts the entry of its key
CacheEvicted(key) == Without(utxo_cache, key)

\* utxo_cache after the catch block (part_000:169-180), which assigns nothing
CacheAfterFailure(key) == utxo_cache

RouteEvent(type, address, net, onlySpendable, status, body) ==
    [type |-> type, addr |-> address, net |-> net, onlySpendable |-> onlySpendable,
     status |-> status, body |-> body]

\* time passes
Tick ==
    /\ alive
    /\ now' \in {u \in ClockValues : u > now}
    /\ ev' = Event("tick", "")
    /\ UNCHANGED <<alive, addresses, storeVars, min_conf, monitoredAddresses, wsVars, polling, inflight,
                   removed, network, utxo_cache, pending, rateVars>>

\* GET /utxos rejected by the parameter checks (part_000:67-73)
UtxosBadRequest(address, net) ==
    /\ alive
    /\ address = "" \/ net \notin MEMPOOL_APIS
    /\ ev' = RouteEvent("utxos_response", "", "", FALSE, 400, [error |-> TRUE])
             @@ Plain(400, [error |-> TRUE])
    /\ UNCHANGED <<alive, addresses, storeVars, min_conf, monitoredAddresses, wsVars, polling, inflight,
                   removed, network, utxo_cache, now, pending, rateVars>>

\* the answer from the cache (part_000:79-98) read off a cache object
HitBody(cache, key, onlySpendable, t) ==
    CachedBody(key[2], key[1],
               IF onlySpendable THEN Spendable(cache[key].data) ELSE cache[key].data,
               t - cache[key].timestamp)

\* the reference run's answer where this run answered from its cache, or a
\* mark that the reference run took the other branch
PlainHit(key, body) ==
    IF FreshIn(unrated, key, now)
    THEN Plain(200, body)
    ELSE Plain(0, [diverged |-> TRUE])

\* GET /utxos answered from the cache (part_000:75-99).  Date.now() is read
\* for the test of line 77 and again for cache_age_ms in line 96.
UtxosHit(address, net, onlySpendable) ==
    LET key == <<net, address>> IN
    /\ alive
    /\ address # "" /\ net \in MEMPOOL_APIS
    /\ CacheFresh(key, now)
    /\ now' \in Soon(now)
    /\ ev' = RouteEvent("utxos_response", address, net, onlySpendable, 200,
                 HitBody(utxo_cache, key, onlySpendable, now'))
             @@ PlainHit(key, HitBody(unrated, key, onlySpendable, now'))
    /\ UNCHANGED <<alive, addresses, storeVars, min_conf, monitoredAddresses, wsVars, polling, inflight,
                   removed, network, utxo_cache, pending, rateVars>>

\* GET /utxos on a cache miss, up to the await of line 102
UtxosMiss(address, net, onlySpendable) ==
    LET key == <<net, address>> IN
    /\ alive
    /\ address # "" /\ net \in MEMPOOL_APIS
    /\ ~CacheFresh(key, now)
    /\ Len(pending) < MaxPending
    /\ pending' = Append(pending, [address |-> address, network |-> net,
                                   onlySpendable |-> onlySpendable])
    /\ ev' = RouteEvent("utxos_fetch", address, net, onlySpendable, 0, [error |-> FALSE])
             @@ (IF FreshIn(unrated, key, now) THEN Plain(0, [diverged |-> TRUE])
                 ELSE Plain(0, [error |-> FALSE]))
    /\ UNCHANGED <<alive, addresses, storeVars, min_conf, monitoredAddresses, wsVars, polling, inflight,
                   removed, network, utxo_cache, now, rateVars>>

PendingWithout(i) ==
    [j \in 1..(Len(pending) - 1) |-> pending[IF j < i THEN j ELSE j + 1]]

\* the indexer answers request i with `reply`: part_000:107-168
UtxosDeliverOk(i, reply) ==
    LET r == pending[i]
        list(rate) == CachedList(transformAt(reply, rate), r.onlySpendable)
        entry(rate) == [data |-> list(rate), timestamp |-> now, fetched |-> reply]
        body(rate) == UtxosBody(r.address, r.network, list(rate), FALSE)
    IN
    /\ alive
    /\ reply \in IndexerUtxoReplies
    /\ utxo_cache' = With(utxo_cache, <<r.network, r.address>>, entry(currentUsdRate))
    /\ pending' = PendingWithout(i)
    /\ ev' = RouteEvent("utxos_response", r.address, r.network, r.onlySpendable, 200,
                        body(currentUsdRate))
             @@ Plain(200, body(NullRate))
    /\ unrated' = With(unrated, <<r.network, r.address>>, entry(NullRate))
    /\ UNCHANGED <<alive, addresses, storeVars, min_conf, monitoredAddresses, wsVars, polling, inflight,
                   removed, network, now, currentUsdRate>>

\* request i fails: the indexer answers 404, or the call throws for another
\* reason (timeout, 5xx, no route): the catch block of part_000:169-180
UtxosDeliverFail(i, notFound) ==
    LET r == pending[i]
        body == IF notFound
                THEN [address |-> r.address, network |-> r.network, error |-> TRUE,
                      utxo_count |-> 0, utxos |-> <<>>]
                ELSE [error |-> TRUE]
    IN
    /\ alive
    /\ utxo_cache' = CacheAfterFailure(<<r.network, r.address>>)
    /\ pending' = PendingWithout(i)
    /\ ev' = RouteEvent("utxos_failed", r.address, r.network, r.onlySpendable,
                  IF notFound THEN 200 ELSE 500, body)
             @@ ("upstream" :> IF notFound THEN 404 ELSE 500)
             @@ Plain(IF notFound THEN 200 ELSE 500, body)
    /\ UNCHANGED <<alive, addresses, storeVars, min_conf, monitoredAddresses, wsVars, polling, inflight,
                   removed, network, now, rateVars>>

\* one element of the normalised list of the standalone wallet router
\* (wallet-routes.js:94-113); status and block_time are carried and left out
normalizeUtxo(u) ==
    [txid |-> u.txid,
     vout |-> u.vout,
     value_sat |-> u.value,
     confirmations |-> IF u.confirmed THEN 1 ELSE 0,
     block_height |-> u.block_height,
     is_confirmed |-> u.confirmed,
     is_pending |-> ~u.confirmed,
     is_spendable |-> u.confirmed,
     spendable_value |-> IF u.confirmed THEN u.value ELSE 0,
     pending_value |-> IF ~u.confirmed THEN u.value ELSE 0,
     effective_value |-> IF u.value - 150 > 0 THEN u.value - 150 ELSE 0]

(* GET /wallet/utxos of the standalone wallet router (wallet-routes.js:       *)
(* 82-131), request to answer: the route keeps no state, so the await in it  *)
(* is invisible to every other handler.  `upstream` is the indexer's status: *)
(* 200 with `reply`, 404, or 500 for any other failure.                      *)
WalletUtxos(address, net, upstream, reply) ==
    /\ alive
    /\ upstream # 200 => reply = <<>>
    /\ ev' = [type |-> "wallet_utxos", addr |-> address, net |-> net,
              upstream |-> IF address = "" THEN 0 ELSE upstream,
              status |-> IF address = "" THEN 400
                         ELSE IF upstream = 200 THEN 200
                         ELSE IF upstream = 404 THEN 404 ELSE 500,
              body |-> IF address = "" THEN [error |-> TRUE]
                       ELSE IF upstream = 200
                       THEN [address |-> address, network |-> net,
                             utxos |-> [i \in 1..Len(reply) |-> normalizeUtxo(reply[i])],
                             utxo_count |-> Len(reply),
                             total_value_sat |->
                                 SumSeq([i \in 1..Len(reply) |-> reply[i].value])]
                       ELSE IF upstream = 404
                       THEN [error |-> TRUE, utxos |-> <<>>]
                       ELSE [error |-> TRUE]]
    /\ UNCHANGED <<alive, addresses, storeVars, min_conf, monitoredAddresses, wsVars, polling, inflight,
                   removed, extVars>>

\* the addresses and networks named by requests; "" is a missing address
RouteAddr == {"a1"}
RouteNetworks == Networks \cup {"regtest"}

NextCache ==
    \/ Tick
    \/ \E a \in RouteAddr \cup {""}, n \in RouteNetworks : UtxosBadRequest(a, n)
    \/ \E a \in RouteAddr, n \in Networks, s \in BOOLEAN : UtxosHit(a, n, s)
    \/ \E a \in RouteAddr, n \in Networks, s \in BOOLEAN : UtxosMiss(a, n, s)
    \/ \E i \in 1..MaxPending, reply \in IndexerUtxoReplies :
           i <= Len(pending) /\ UtxosDeliverOk(i, reply)
    \/ \E i \in 1..MaxPending, nf \in BOOLEAN :
           i <= Len(pending) /\ UtxosDeliverFail(i, nf)
    \/ \E a \in RouteAddr \cup {""}, n \in Networks, up \in {200, 404, 500},
          reply \in IndexerUtxoReplies : WalletUtxos(a, n, up, reply)

SpecCache == Init /\ [][NextCache]_vars

\* the rates the price service can report
UsdRates == {60000, 61000}

\* mutant: a new rate drops the cached lists
CacheClearedByRateFetch == EmptyObj

\* utxo_cache after fetchLiveUsdRate (part_000:19-31), which assigns only
\* currentUsdRate and lastRateFetch
CacheAfterRateFetch == utxo_cache

(* fetchLiveUsdRate (part_000:19-31), called at startup and every 5 minutes, *)
(* from request to completion: nothing else reads a rate fetch in progress.  *)
(* A failed call or a body without bitcoin.usd leaves the rate as it was.    *)
(* In the reference run every such call fails.                               *)
fetchLiveUsdRate(ok, rate) ==
    /\ alive
    /\ currentUsdRate' = IF ok THEN rate ELSE currentUsdRate
    /\ utxo_cache' = CacheAfterRateFetch
    /\ ev' = [type |-> "rate_fetch", addr |-> "", ok |-> ok]
    /\ UNCHANGED <<alive, addresses, storeVars, min_conf, monitoredAddresses, wsVars, polling, inflight,
                   removed, network, now, pending, unrated>>

\* the answer of GET /utxos/summary (part_000:198-221) read off a cache
\* object under a rate
SummaryBody(cache, address, net, rate, t) ==
    LET aggr == computeAggregates(cache[<<net, address>>].data) IN
    [address |-> address, network |-> net,
     utxo_count |-> Len(cache[<<net, address>>].data),
     aggr |-> aggr, cached |-> TRUE,
     cache_age_ms |-> t - cache[<<net, address>>].timestamp]
    @@ FiatFields([confirmed_usd |-> aggr.confirmed_value,
                   pending_usd |-> aggr.pending_value,
                   spendable_usd |-> aggr.spendable_value,
                   total_usd |-> aggr.total_value], rate)

(* GET /utxos/summary (part_000:184-225): 400 without an address, 404        *)
(* without a cache entry (of any age), else the aggregates of the entry.     *)
UtxosSummary(address, net) ==
    LET key == <<net, address>>
        answer(cache, rate) ==
            IF address = "" THEN [status |-> 400, body |-> [error |-> TRUE]]
            ELSE IF key \notin DOMAIN cache
            THEN [status |-> 404, body |-> [error |-> TRUE]]
            ELSE [status |-> 200, body |-> SummaryBody(cache, address, net, rate, now)]
    IN
    /\ alive
    /\ ev' = [type |-> "utxos_summary", addr |-> address, net |-> net,
              status |-> answer(utxo_cache, currentUsdRate).status,
              body |-> answer(utxo_cache, currentUsdRate).body]
             @@ Plain(answer(unrated, NullRate).status, answer(unrated, NullRate).body)
    /\ UNCHANGED <<alive, addresses, storeVars, min_conf, monitoredAddresses, wsVars, polling, inflight,
                   removed, network, utxo_cache, now, pending, rateVars>>

\* what the indexer reports for an address (part_000:294-299): funded and
\* spent sums and transaction counts of chain_stats and mempool_stats
AddressStats ==
    { [chain |-> [funded_txo_sum |-> 0, spent_txo_sum |-> 0, tx_count |-> 0],
       mempool |-> [funded_txo_sum |-> 0, spent_txo_sum |-> 0, tx_count |-> 0]],
      [chain |-> [funded_txo_sum |-> 9, spent_txo_sum |-> 4, tx_count |-> 2],
       mempool |-> [funded_txo_sum |-> 3, spent_txo_sum |-> 0, tx_count |-> 1]] }

\* the body of a successful /address-balance answer (part_000:296-325)
BalanceBody(address, net, data, rate) ==
    LET confirmed == data.chain.funded_txo_sum - data.chain.spent_txo_sum
        unconfirmed == data.mempool.funded_txo_sum - data.mempool.spent_txo_sum
    IN [address |-> address, network |-> net,
        balance |-> [confirmed_sat |-> confirmed, unconfirmed_sat |-> unconfirmed,
                     total_sat |-> confirmed + unconfirmed]
                    @@ FiatFields([confirmed_usd |-> confirmed,
                                   unconfirmed_usd |-> unconfirmed,
                                   total_usd |-> confirmed + unconfirmed], rate),
        transaction_count |-> [confirmed |-> data.chain.tx_count,
                               unconfirmed |-> data.mempool.tx_count],
        is_active |-> data.chain.tx_count > 0 \/ data.mempool.tx_count > 0]

(* GET /address-balance (part_000:277-336), request to answer: the route     *)
(* keeps no state.  `upstream` is the indexer's status: 200 with `data`,     *)
(* 404, or 500 for any other failure.                                        *)
AddressBalance(address, net, upstream, data) ==
    LET answer(rate) ==
            IF address = "" \/ net \notin MEMPOOL_APIS
            THEN [status |-> 400, body |-> [error |-> TRUE]]
            ELSE IF upstream = 200
            THEN [status |-> 200, body |-> BalanceBody(address, net, data, rate)]
            ELSE IF upstream = 404
            THEN [status |-> 200,
                  body |-> [address |-> address,
                            balance |-> [confirmed |-> 0, unconfirmed |-> 0, total |-> 0],
                            is_active |-> FALSE]]
            ELSE [status |-> 500, body |-> [error |-> TRUE]]
    IN
    /\ alive
    /\ ev' = [type |-> "address_balance", addr |-> address, net |-> net,
              status |-> answer(currentUsdRate).status,
              body |-> answer(currentUsdRate).body]
             @@ Plain(answer(NullRate).status, answer(NullRate).body)
    /\ UNCHANGED <<alive, addresses, storeVars, min_conf, monitoredAddresses, wsVars, polling, inflight,
                   removed, network, utxo_cache, now, pending, rateVars>>

(* The UTXO routes with the price service: requests for one key, the summary *)
(* and balance routes, and rate fetches that succeed or fail at any moment.  *)
NextFiat ==
    \/ Tick
    \/ \E s \in BOOLEAN : UtxosHit("a1", "testnet", s)
    \/ \E s \in BOOLEAN : UtxosMiss("a1", "testnet", s)
    \/ \E i \in 1..MaxPending, reply \in IndexerUtxoReplies :
           i <= Len(pending) /\ UtxosDeliverOk(i, reply)
    \/ \E i \in 1..MaxPending, nf \in BOOLEAN :
           i <= Len(pending) /\ UtxosDeliverFail(i, nf)
    \/ \E a \in RouteAddr \cup {""} : UtxosSummary(a, "testnet")
    \/ \E a \in RouteAddr \cup {""}, up \in {200, 404, 500}, data \in AddressStats :
           AddressBalance(a, "testnet", up, data)
    \/ \E ok \in BOOLEAN, rate \in UsdRates : fetchLiveUsdRate(ok, rate)

SpecFiat == Init /\ [][NextFiat]_vars

(* Fetches of both components against an indexer that may fail: the balance *)
(* route of the engine router and the /utxos route for one key.             *)
NextFailure ==
    \/ Tick
    \/ \E s \in BOOLEAN : UtxosMiss("a1", "testnet", s)
    \/ \E i \in 1..MaxPending, reply \in IndexerUtxoReplies :
           i <= Len(pending) /\ UtxosDeliverOk(i, reply)
    \/ \E i \in 1..MaxPending, nf \in BOOLEAN :
           i <= Len(pending) /\ UtxosDeliverFail(i, nf)
    \/ BalanceQuery("a1")
    \/ \E i \in 1..MaxInflight, reply \in IndexerUtxoReplies \cup IndexerMempoolReplies :
           i <= Len(inflight) /\ DeliverOk(i, reply)
    \/ \E i \in 1..MaxInflight : i <= Len(inflight) /\ DeliverFail(i)

SpecFailure == Init /\ [][NextFailure]_vars

----------------------------------------------------------------------------
(* The conflict-set builders of src/bitcoin-beast-framework.js:              *)
(* /api/final-sequence-attack (174-254), /api/identical-inputs-exploit       *)
(* (393-472) and /api/execute-full-attack (536-627).  Each is a function of  *)
(* its request; the answer is recorded in ev.                                *)
(*                                                                           *)
(* A transaction is the record of what its serialization encodes.  Sequence  *)
(* numbers are 32-bit values kept as two 16-bit halves.                      *)

Seq32(hi, lo) == [hi |-> hi, lo |-> lo]

\* sequence: 0xffffffff (197, 417, 565) and sequence: 0xfffffffe (211, 431, 582)
SEQUENCE_MERCHANT == Seq32(65535, 65535)
SEQUENCE_ATTACKER == Seq32(65535, 65534)

Below(s, t) == s.hi < t.hi \/ (s.hi = t.hi /\ s.lo < t.lo)

\* request fields.  "" stands for a missing field, "bad" for a value that
\* validateWIF / validateAddress (125-141) rejects.
Wifs == {"", "bad", "k1"}
MerchantAddresses == {"", "bad", "m1"}
AttackerAddresses == {"", "bad", "k1addr"}
NoUtxo == [txid |-> "", vout |-> 0, value |-> 0]
UtxoInput(t, i, v) == [txid |-> t, vout |-> i, value |-> v]
UtxoInputs ==
    { UtxoInput("t1", 0, 2000), UtxoInput("t1", 0, 100000),
      UtxoInput("t2", 1, 5000), UtxoInput("t2", 1, 100000) }
MaxUtxoInputs == 2

\* fee_rate in tenths of a sat/vB: 150 is the default 15, 225 is 22.5
FeeRateTenths == {-10, 0, 2, 150, 225}

CeilDiv(a, b) == (a + b - 1) \div b

(* JavaScript numbers are IEEE-754 doubles.  For the rates above that are    *)
(* doubles themselves (-1, 0, 15, 22.5) the products 150 * fee_rate and      *)
(* 150 * (fee_rate * 1.5) are exact.  0.2 is not a double: 150 * 0.2 rounds  *)
(* to exactly 30, but 0.2 * 1.5 is 0.30000000000000004 and 150 times that is *)
(* 45.00000000000001, above the exact product 45.                            *)
ProductRoundedAbove == {2}

\* Math.ceil(150 * fee_rate) (191) and Math.ceil(150 * (fee_rate * 1.5)) (206)
tx1_fee(k) == CeilDiv(150 * k, 10)
tx2_fee(k) == CeilDiv(225 * k, 10) + (IF k \in ProductRoundedAbove THEN 1 ELSE 0)

\* the fixed fees of the other two builders (423/455, 437/460, 574/597, 591/598)
MERCHANT_FEE == 3000
ATTACKER_FEE == 5000

\* mutant: the whole input value is paid out
OutputValueWhole(utxo, fee) == utxo.value

\* value: utxo.value - fee of addOutput (203, 217, 423, 437, 574, 591)
OutputValue(utxo, fee) == utxo.value - fee

\* new bitcoin.Psbt().addInput({...}).addOutput({...}), signed and extracted
BuildTx(utxo, sequence, address, fee) ==
    [ins |-> << [hash |-> utxo.txid, index |-> utxo.vout, sequence |-> sequence,
                 witness_value |-> utxo.value] >>,
     outs |-> << [address |-> address, value |-> OutputValue(utxo, fee)] >>]

\* addOutput rejects a negative value, and extractTransaction rejects
\* outputs that spend more than the inputs
Buildable(utxo, fee) ==
    OutputValue(utxo, fee) >= 0 /\ OutputValue(utxo, fee) <= utxo.value

\* one candidate as the answers list it: the transaction (txid and hex), its
\* destination, the sequence label and the fee reported
Candidate(utxo, sequence, label, address, fee) ==
    [tx |-> BuildTx(utxo, sequence, address, fee), destination |-> address,
     sequence |-> label, fee |-> fee]

\* mutant: the builder posts to a broadcast endpoint
ExternalCallsBroadcast(route) == << "https://mempool.space/testnet/api/tx" >>

\* the requests a builder route sends to external endpoints between request
\* and response: the three handlers contain no axios call and no await
ExternalCalls(route) == <<>>

BuildEvent(route, req, status, body) ==
    [type |-> "build", addr |-> "", route |-> route, req |-> req,
     status |-> status, body |-> body, sent |-> ExternalCalls(route)]

\* the three checks every builder starts with (180-188, 398-406, 547-557)
Rejected(wif, missing_utxo, a1, a2) ==
    \/ wif = "" \/ missing_utxo \/ a1 = "" \/ a2 = ""
    \/ wif = "bad"
    \/ a1 = "bad" \/ a2 = "bad"

(* POST /api/final-sequence-attack.  lib_ok: the calls into the library      *)
(* (signInput, finalizeAllInputs, extractTransaction) go through.            *)
FinalSequenceAttack(req, lib_ok) ==
    LET fee1 == tx1_fee(req.fee_rate)
        fee2 == tx2_fee(req.fee_rate)
        built == lib_ok /\ Buildable(req.utxo, fee1) /\ Buildable(req.utxo, fee2)
    IN
    /\ alive
    /\ ev' = IF Rejected(req.wif, req.utxo = NoUtxo, req.victim_address,
                         req.attacker_address)
             THEN BuildEvent("final-sequence-attack", req, 400, [error |-> TRUE])
             ELSE IF ~built
             THEN BuildEvent("final-sequence-attack", req, 500, [error |-> TRUE])
             ELSE BuildEvent("final-sequence-attack", req, 200,
                    [attack_type |-> "FINAL_SEQUENCE",
                     tx_merchant |-> Candidate(req.utxo, SEQUENCE_MERCHANT, "0xffffffff",
                                               req.victim_address, fee1),
                     tx_attacker |-> Candidate(req.utxo, SEQUENCE_ATTACKER, "0xfffffffe",
                                               req.attacker_address, fee2)])
    /\ UNCHANGED <<alive, addresses, storeVars, min_conf, monitoredAddresses, wsVars, polling, inflight,
                   removed, extVars>>

\* one element of tx_pairs (411-462)
TxPair(utxo, idx, merchant_address, attacker_address) ==
    [utxo_index |-> idx,
     inputs |-> [shared_txid |-> utxo.txid, shared_vout |-> utxo.vout,
                 shared_value |-> utxo.value],
     tx_merchant |-> Candidate(utxo, SEQUENCE_MERCHANT, "0xffffffff",
                               merchant_address, MERCHANT_FEE),
     tx_attacker |-> Candidate(utxo, SEQUENCE_ATTACKER, "0xfffffffe",
                               attacker_address, ATTACKER_FEE)]

(* POST /api/identical-inputs-exploit: one pair per element of utxos; an     *)
(* exception in any iteration answers 500 for the whole request.             *)
IdenticalInputsExploit(req, lib_ok) ==
    LET built == /\ lib_ok
                 /\ \A i \in DOMAIN req.utxos :
                        /\ Buildable(req.utxos[i], MERCHANT_FEE)
                        /\ Buildable(req.utxos[i], ATTACKER_FEE)
    IN
    /\ alive
    /\ ev' = IF Rejected(req.wif, FALSE, req.merchant_address, req.attacker_address)
             THEN BuildEvent("identical-inputs-exploit", req, 400, [error |-> TRUE])
             ELSE IF ~built
             THEN BuildEvent("identical-inputs-exploit", req, 500, [error |-> TRUE])
             ELSE BuildEvent("identical-inputs-exploit", req, 200,
                    [attack_type |-> "IDENTICAL_INPUTS_EXPLOIT",
                     tx_pairs |-> [i \in DOMAIN req.utxos |->
                                      TxPair(req.utxos[i], i - 1, req.merchant_address,
                                             req.attacker_address)]])
    /\ UNCHANGED <<alive, addresses, storeVars, min_conf, monitoredAddresses, wsVars, polling, inflight,
                   removed, extVars>>

\* POST /api/execute-full-attack
ExecuteFullAttack(req, lib_ok) ==
    LET built == /\ lib_ok
                 /\ Buildable(req.utxo, MERCHANT_FEE)
                 /\ Buildable(req.utxo, ATTACKER_FEE)
    IN
    /\ alive
    /\ ev' = IF Rejected(req.wif, req.utxo = NoUtxo, req.merchant_address,
                         req.attacker_address)
             THEN BuildEvent("execute-full-attack", req, 400, [error |-> TRUE])
             ELSE IF ~built
             THEN BuildEvent("execute-full-attack", req, 500, [error |-> TRUE])
             ELSE BuildEvent("execute-full-attack", req, 200,
                    [attack_status |-> "READY_FOR_EXECUTION",
                     tx_merchant |-> Candidate(req.utxo, SEQUENCE_MERCHANT, "0xffffffff",
                                               req.merchant_address, MERCHANT_FEE),
                     tx_attacker |-> Candidate(req.utxo, SEQUENCE_ATTACKER, "0xfffffffe",
                                               req.attacker_address, ATTACKER_FEE)])
    /\ UNCHANGED <<alive, addresses, storeVars, min_conf, monitoredAddresses, wsVars, polling, inflight,
                   removed, extVars>>

\* default_nodes (303-313)
DefaultNodes(net) ==
    IF net = "mainnet"
    THEN << "https://mempool.space/api/tx", "https://blockstream.info/api/tx",
            "https://api.blockchair.com/bitcoin/push/transaction" >>
    ELSE << "https://mempool.space/testnet/api/tx",
            "https://blockstream.info/testnet/api/tx" >>

(* POST /api/merchant-targeted-broadcast (296-341) with the default nodes:   *)
(* the hex is posted to each endpoint in turn; `failed` are the endpoints    *)
(* whose post throws.  "" stands for a missing hex.                          *)
MerchantTargetedBroadcast(hex, net, failed) ==
    LET targets == DefaultNodes(net) IN
    /\ alive
    /\ failed \subseteq DOMAIN targets
    /\ ev' = IF hex = ""
             THEN [type |-> "broadcast", addr |-> "", status |-> 400, sent |-> <<>>,
                   body |-> [error |-> TRUE]]
             ELSE [type |-> "broadcast", addr |-> "", status |-> 200,
                   sent |-> [i \in DOMAIN targets |->
                                [endpoint |-> targets[i], data |-> hex]],
                   body |-> [attack_type |-> "MERCHANT_TARGETED_BROADCAST",
                             broadcast_results |->
                                [i \in DOMAIN targets |->
                                    [endpoint |-> targets[i],
                                     status |-> IF i \in failed THEN "FAIL"
                                                ELSE "BROADCASTED"]]]]
    /\ UNCHANGED <<alive, addresses, storeVars, min_conf, monitoredAddresses, wsVars, polling, inflight,
                   removed, extVars>>

\* the requests
FinalSequenceRequests ==
    [wif : Wifs, utxo : UtxoInputs \cup {NoUtxo}, victim_address : MerchantAddresses,
     attacker_address : AttackerAddresses, fee_rate : FeeRateTenths]

UtxoLists ==
    UNION {[1..n -> UtxoInputs] : n \in 0..MaxUtxoInputs}

IdenticalInputsRequests ==
    [wif : Wifs, utxos : UtxoLists, merchant_address : MerchantAddresses,
     attacker_address : AttackerAddresses]

FullAttackRequests ==
    [wif : Wifs, utxo : UtxoInputs \cup {NoUtxo}, merchant_address : MerchantAddresses,
     attacker_address : AttackerAddresses]

NextBuild ==
    \/ \E req \in FinalSequenceRequests, ok \in BOOLEAN : FinalSequenceAttack(req, ok)
    \/ \E req \in IdenticalInputsRequests, ok \in BOOLEAN : IdenticalInputsExploit(req, ok)
    \/ \E req \in FullAttackRequests, ok \in BOOLEAN : ExecuteFullAttack(req, ok)
    \/ \E hex \in {"", "h1"}, net \in Networks, failed \in SUBSET (1..3) :
           MerchantTargetedBroadcast(hex, net, failed)

SpecBuild == Init /\ [][NextBuild]_vars

----------------------------------------------------------------------------
\* C11: a step in which a fetch fails (fetchUtxos or fetchMempoolTxs of the
\* engine, or the indexer call of /utxos on a cache miss) changes neither the
\* engine's stored outputs and snapshots nor the cache of the /utxos route:
\* the entry of the address is neither cleared nor replaced.
C11_FailureKeepsEntry ==
    [][ /\ (ev'.type = "fetch_done" /\ ~ev'.ok)
            => (utxos' = utxos /\ mempool_txs' = mempool_txs)
        /\ (ev'.type = "utxos_failed") => (utxo_cache' = utxo_cache) ]_vars

\* a /utxos fetch has just failed for a key whose earlier entry is still cached
C11_Witness ==
    /\ ev.type = "utxos_failed"
    /\ <<ev.net, ev.addr>> \in DOMAIN utxo_cache
    /\ utxo_cache[<<ev.net, ev.addr>>].data # <<>>

\* C12: when the refresh of a key fails while an earlier entry exists for that
\* key, the answer is a success that carries the earlier entry's outputs and
\* their age, not an error and not an empty list.
C12_StaleServedOnFailure ==
    (ev.type = "utxos_failed" /\ <<ev.net, ev.addr>> \in DOMAIN utxo_cache)
        => /\ ev.status = 200
           /\ "cache_age_ms" \in DOMAIN ev.body
           /\ ev.body.utxos = (IF ev.onlySpendable
                               THEN Spendable(utxo_cache[<<ev.net, ev.addr>>].data)
                               ELSE utxo_cache[<<ev.net, ev.addr>>].data)
           /\ ev.body.cache_age_ms = now - utxo_cache[<<ev.net, ev.addr>>].timestamp

\* C13: when a fetch made for a balance query fails (the indexer cannot be
\* reached), the query is answered with status 500 and an error body, never
\* with a balance; in particular so for an address that has no stored data.
C13_NoBalanceWithoutData ==
    (ev.type = "fetch_done" /\ ev.owner = "balance" /\ ~ev.ok)
        => (ev.status = 500 /\ ev.body = [error |-> TRUE])

\* a balance query for an address without any stored data has just failed
C13_Witness ==
    /\ ev.type = "fetch_done" /\ ev.owner = "balance" /\ ~ev.ok
    /\ ev.kind = "utxo"
    /\ ev.addr \notin DOMAIN utxos
    /\ ev.addr \notin DOMAIN mempool_txs
    /\ ev.status = 500

\* the key named by the last /utxos event
EvKey == <<ev.net, ev.addr>>

\* C14, first part: an answer served from the cache (cached = true) reports
\* cache_age_ms < 30000.
C14_HitAgeBelowTtl ==
    (ev.type = "utxos_response" /\ ev.status = 200 /\ ev.body.cached)
        => ev.body.cache_age_ms < CACHE_TTL

\* C14, second part: the indexer is called only for a key that has no entry or
\* whose entry is 30 s old or older, and a successful call replaces the entry
\* by the answered list with the current time as its timestamp.
C14_MissRefetches ==
    /\ (ev.type = "utxos_fetch")
          => (EvKey \notin DOMAIN utxo_cache
              \/ now - utxo_cache[EvKey].timestamp >= CACHE_TTL)
    /\ (ev.type = "utxos_response" /\ ev.status = 200 /\ ~ev.body.cached)
          => /\ EvKey \in DOMAIN utxo_cache
             /\ utxo_cache[EvKey].timestamp = now
             /\ utxo_cache[EvKey].data = ev.body.utxos

\* C14: a /utxos request made less than 30 s after the last successful fetch
\* of its key is answered from the cache with cached = true and
\* cache_age_ms < 30000; a request with no entry, or at or after 30 s, calls
\* the indexer and on success replaces the entry and its timestamp.
C14_CacheWindow == C14_HitAgeBelowTtl /\ C14_MissRefetches

\* C15: a balance query that follows a successful balance answer for the same
\* address, with no time passed in between (so within any TTL), is served from
\* what the first query left: it starts no indexer fetch.
C15_SecondFromCache ==
    [][ ( /\ ev.type = "fetch_done" /\ ev.owner = "balance" /\ ev.status = 200
          /\ ev'.type = "balance_query" /\ ev'.addr = ev.addr
          /\ now' = now )
        => inflight' = inflight ]_vars

\* C16: every cache entry holds the whole list the indexer returned for its
\* fetch, whatever the onlySpendable flag of the request that filled it, and a
\* cached answer to a request without onlySpendable lists every output of
\* that fetch, unconfirmed ones included.
C16_CacheHoldsFullList ==
    /\ \A key \in DOMAIN utxo_cache :
           utxo_cache[key].data = transform(utxo_cache[key].fetched)
    /\ (ev.type = "utxos_response" /\ ev.status = 200 /\ ev.body.cached
            /\ ~ev.onlySpendable)
          => ev.body.utxos = transform(utxo_cache[EvKey].fetched)

\* the list is empty or the stored form of an answer of network n's indexer
UtxosFrom(list, n) ==
    list = <<>> \/ \E reply \in UtxoRepliesOn(n) : list = mapUtxos(reply)

SnapshotFrom(snapshot, a, n) ==
    snapshot = EmptyMempool
        \/ \E reply \in MempoolRepliesOn(n) : snapshot = mapMempool(reply, a)

\* C17: in an answer that names network N, the outputs and the mempool
\* snapshot reported for each address were fetched from network N's indexer,
\* whatever requests and sweeps naming other networks ran before or meanwhile.
C17_AnswerFromNamedNetwork ==
    ev.type = "status"
        => \A a \in DOMAIN ev.status :
               /\ UtxosFrom(ev.status[a].utxos, ev.network)
               /\ SnapshotFrom(ev.status[a].mempool_txs, a, ev.network)

\* C18: at any time at most one fetch-and-store is in progress for a given
\* (network,address) key and component: no two pending engine fetches of the
\* same kind, and no two pending /utxos fetches, name the same key.
C18_OneFetchPerKey ==
    /\ \A i, j \in DOMAIN inflight :
           (i # j /\ inflight[i].kind = inflight[j].kind)
               => <<inflight[i].net, inflight[i].addr>> # <<inflight[j].net, inflight[j].addr>>
    /\ \A i, j \in DOMAIN pending :
           i # j => <<pending[i].network, pending[i].address>>
                        # <<pending[j].network, pending[j].address>>

\* the conflict sets of the last builder answer: the pair of the answer, or
\* each element of tx_pairs
ConflictSets ==
    IF ev.type = "build" /\ ev.status = 200
    THEN IF ev.route = "identical-inputs-exploit"
         THEN {[tx_merchant |-> ev.body.tx_pairs[i].tx_merchant,
                tx_attacker |-> ev.body.tx_pairs[i].tx_attacker] :
                   i \in DOMAIN ev.body.tx_pairs}
         ELSE {[tx_merchant |-> ev.body.tx_merchant,
                tx_attacker |-> ev.body.tx_attacker]}
    ELSE {}

OutputSum(tx) == SumSeq([i \in 1..Len(tx.outs) |-> tx.outs[i].value])

\* C19: in every conflict set a builder returns, both candidates spend the
\* same outpoint (same txid, same output index), and for each candidate the
\* output value plus the fee reported for it equals the input value.
C19_SameOutpointExactFee ==
    \A cs \in ConflictSets :
        /\ cs.tx_merchant.tx.ins[1].hash = cs.tx_attacker.tx.ins[1].hash
        /\ cs.tx_merchant.tx.ins[1].index = cs.tx_attacker.tx.ins[1].index
        /\ \A c \in {cs.tx_merchant, cs.tx_attacker} :
               OutputSum(c.tx) + c.fee = c.tx.ins[1].witness_value

\* the identical-inputs builder has answered two pairs on different outpoints
C19_Witness ==
    /\ ev.type = "build" /\ ev.status = 200
    /\ ev.route = "identical-inputs-exploit"
    /\ Cardinality(ConflictSets) = 2
    /\ \E cs \in ConflictSets : OutputSum(cs.tx_attacker.tx) = 0

\* C20: in every conflict set the non-replaceable candidate's input carries
\* the sequence 0xFFFFFFFF and the replaceable candidate's input a sequence
\* strictly below 0xFFFFFFFE.
C20_SequenceValues ==
    \A cs \in ConflictSets :
        /\ cs.tx_merchant.tx.ins[1].sequence = Seq32(65535, 65535)
        /\ Below(cs.tx_attacker.tx.ins[1].sequence, Seq32(65535, 65534))

\* the candidates of the last answer of the rate-based builder
RateBased == ev.type = "build" /\ ev.status = 200 /\ ev.route = "final-sequence-attack"

\* C21: the rate-based builder reports for the first candidate the fee
\* 150 vbytes times the fee rate and for the second 150 vbytes times 1.5
\* times the fee rate (a fraction of a satoshi counting as a whole one), and
\* each output is the input value minus that fee; for input 100,000 and rate
\* 15 the fees are 2,250 and 3,375 and the outputs 97,750 and 96,625.
\* The rate is in tenths, so 150 * rate is 15 * k and 225 * rate is 45 * k / 2.
C21_RateBasedFee ==
    RateBased =>
        LET k == ev.req.fee_rate
            c1 == ev.body.tx_merchant
            c2 == ev.body.tx_attacker
        IN /\ c1.fee >= 15 * k /\ c1.fee - 1 < 15 * k
           /\ 2 * c2.fee >= 45 * k /\ 2 * (c2.fee - 1) < 45 * k
           /\ OutputSum(c1.tx) = ev.req.utxo.value - c1.fee
           /\ OutputSum(c2.tx) = ev.req.utxo.value - c2.fee
           /\ (k = 150 /\ ev.req.utxo.value = 100000)
                 => /\ c1.fee = 2250 /\ OutputSum(c1.tx) = 97750
                    /\ c2.fee = 3375 /\ OutputSum(c2.tx) = 96625

\* C22: a candidate whose computed output value (input value minus fee) is
\* zero or negative is not returned as a signed transaction: every candidate
\* of every conflict set in an answer pays a positive amount.
C22_NoCandidateWithoutFunds ==
    \A cs \in ConflictSets :
        \A c \in {cs.tx_merchant, cs.tx_attacker} : OutputSum(c.tx) > 0

\* C23: every candidate the rate-based builder returns reports a fee that is
\* strictly positive and bounded (here: not above the input value), whatever
\* fee_rate and input value the request carries.
C23_FeePositiveAndBounded ==
    RateBased =>
        \A c \in {ev.body.tx_merchant, ev.body.tx_attacker} :
            c.fee > 0 /\ c.fee <= c.tx.ins[1].witness_value

\* C24: building a conflict set hands nothing to a broadcaster: in a step of
\* the final-sequence, identical-inputs or full-attack builder no request is
\* sent to an external endpoint and none is left pending.
C24_BuilderSendsNothing ==
    [][ ev'.type = "build"
          => (ev'.sent = <<>> /\ inflight' = inflight /\ pending' = pending) ]_vars

\* the full-attack builder has answered a conflict set and sent nothing
C24_Witness ==
    /\ ev.type = "build" /\ ev.status = 200
    /\ ev.route = "execute-full-attack"
    /\ ConflictSets # {}
    /\ ev.sent = <<>>

\* C25: every transaction message on a connection starts a fetch of that
\* address's mempool snapshot and stores nothing itself; a snapshot only ever
\* changes to the list an indexer reply maps to (or by add / remove), so it
\* never holds a transaction known from a message payload alone.
C25_PushRefetches ==
    [][ /\ (ev'.type = "ws:message" /\ ev'.msg.kind = "address-transactions")
           => /\ Len(inflight') = Len(inflight) + 1
              /\ inflight'[Len(inflight')].addr = ev'.addr
              /\ inflight'[Len(inflight')].kind = "mempool"
              /\ SubSeq(inflight', 1, Len(inflight)) = inflight
              /\ mempool_txs' = mempool_txs
        /\ (ev'.type = "fetch_done" /\ ev'.owner = "ws" /\ ev'.ok)
           => /\ ev'.reply \in IndexerMempoolReplies
              /\ mempool_txs'[ev'.addr] = mapMempool(ev'.reply, ev'.addr)
        /\ mempool_txs' # mempool_txs
           => \/ ev'.type \in {"address:added", "address:removed", "add-address"}
              \/ ev'.type = "fetch_done" /\ ev'.ok /\ ev'.kind = "mempool"
        /\ \A a \in DOMAIN mempool_txs' : "p1" \notin DOMAIN mempool_txs'[a]
      ]_vars

\* a fetch started by a message on a monitored address's connection has
\* completed and its non-empty list is the stored snapshot
C25_Witness ==
    /\ ev.type = "fetch_done" /\ ev.owner = "ws" /\ ev.ok
    /\ ev.reply # <<>>
    /\ Includes(addresses, ev.addr)
    /\ mempool_txs[ev.addr] = mapMempool(ev.reply, ev.addr)

\* C26: adding an address that is already in the list is a no-op: the
\* add-address call (addAddress, then startWebSocketMonitor) leaves the list,
\* the stored outputs, the stored snapshot and an existing connection as they
\* were and emits no address:added; so do the two engine calls on their own.
C26_ReAddIsNoOp ==
    [][ /\ (ev'.type \in {"add-address", "addAddress:noop", "address:added"}
            /\ ev'.addr # "" /\ Includes(addresses, ev'.addr))
           => /\ addresses' = addresses
              /\ utxos' = utxos
              /\ mempool_txs' = mempool_txs
              /\ ev'.type # "address:added"
              /\ ev'.type = "add-address" => ev'.emitted = <<>>
        /\ (ev'.type \in {"add-address", "startWebSocketMonitor"}
            /\ ev'.addr \in DOMAIN websockets)
           => (websockets' = websockets /\ conns' = conns)
      ]_vars

\* the add-address route has answered for an address that was in the list
\* with a stored snapshot and a connection, and all three are still there
C26_Witness ==
    /\ ev.type = "add-address" /\ ev.status = 200 /\ ev.emitted = <<>>
    /\ Includes(addresses, ev.addr)
    /\ ev.addr \in DOMAIN websockets
    /\ conns[websockets[ev.addr]].state = "OPEN"
    /\ ev.addr \in DOMAIN mempool_txs /\ mempool_txs[ev.addr] # EmptyMempool

\* C27: an address in the list stays monitored over every step that is not
\* a removeAddress of it: after the step the engine is still running and the
\* address is still in its list.
C27_MonitoredUntilRemoved ==
    [][ \A a \in Elements(addresses) :
            ~(ev'.type = "address:removed" /\ ev'.addr = a)
            => (alive' /\ Includes(addresses', a)) ]_vars

\* the values of the outputs of tx that pay address a, added up
PaidTo(tx, a) ==
    SumSeq([i \in 1..Len(tx.vout) |->
               IF tx.vout[i].scriptpubkey_address = a THEN tx.vout[i].value ELSE 0])

\* C28: after a fetched snapshot is stored, each of its transactions carries
\* as amount the sum of its outputs paying the address (zero when none does)
\* and is marked incoming exactly when that sum is positive.
C28_ReceiveAmount ==
    (ev.type = "fetch_done" /\ ev.ok /\ ev.kind = "mempool")
    => /\ DOMAIN mempool_txs[ev.addr] = {ev.reply[i].txid : i \in DOMAIN ev.reply}
       /\ \A i \in DOMAIN ev.reply :
            LET entry == mempool_txs[ev.addr][ev.reply[i].txid]
            IN /\ entry.amount = PaidTo(ev.reply[i], ev.addr)
               /\ entry.is_incoming = (PaidTo(ev.reply[i], ev.addr) > 0)

\* a stored snapshot holds a transaction with two outputs paying the address
\* (amount 4, incoming) and one whose only output to it has value zero
C28_Witness ==
    /\ ev.type = "fetch_done" /\ ev.ok /\ ev.kind = "mempool"
    /\ \E t \in DOMAIN mempool_txs[ev.addr] :
          mempool_txs[ev.addr][t].amount = 4 /\ mempool_txs[ev.addr][t].is_incoming
    /\ \E t \in DOMAIN mempool_txs[ev.addr] :
          mempool_txs[ev.addr][t].amount = 0 /\ ~mempool_txs[ev.addr][t].is_incoming

\* the (txid, vout, value) triples of a list of outputs, in order
Outpoints(list) ==
    [i \in 1..Len(list) |-> <<list[i].txid, list[i].vout, list[i].value>>]

\* C29: a successful fetch replaces what was stored: the stored output list
\* is, entry by entry, the list the indexer returned, the stored snapshot has
\* exactly the returned transactions, and nothing of the previous list or
\* snapshot that the indexer no longer reports is left.
C29_StoredIsReturned ==
    [][ (ev'.type = "fetch_done" /\ ev'.ok)
        => LET a == ev'.addr
               returned == {ev'.reply[i].txid : i \in DOMAIN ev'.reply}
           IN IF ev'.kind = "utxo"
              THEN /\ Outpoints(utxos'[a]) = Outpoints(ev'.reply)
                   /\ \A i \in DOMAIN UtxosOr(utxos, a) :
                         utxos[a][i].txid \notin returned
                         => \A j \in DOMAIN utxos'[a] : utxos'[a][j].txid # utxos[a][i].txid
                   /\ mempool_txs' = mempool_txs
              ELSE /\ DOMAIN mempool_txs'[a] = returned
                   /\ \A t \in DOMAIN MempoolOr(mempool_txs, a) :
                         t \notin returned => t \notin DOMAIN mempool_txs'[a]
                   /\ utxos' = utxos
      ]_vars

\* a fetch that a later-started one had overtaken has stored an empty list
\* over what was there, while the snapshot of the address still has entries
C29_Witness ==
    /\ ev.type = "fetch_done" /\ ev.ok /\ ev.kind = "utxo" /\ ev.overtaken
    /\ ev.reply = <<>>
    /\ utxos[ev.addr] = <<>>
    /\ ev.addr \in DOMAIN mempool_txs /\ mempool_txs[ev.addr] # EmptyMempool

\* C30: when the indexer answers 404 for the address, the unspent-output
\* query answers with success status, an empty list and no error indication.
C30_NotFoundIsEmptySuccess ==
    (ev.type \in {"utxos_failed", "wallet_utxos"} /\ ev.upstream = 404)
    => /\ ev.status = 200
       /\ ev.body.utxos = <<>>
       /\ ~ev.body.error

\* the fields that carry a fiat amount
FiatKeys ==
    {"fiat_usd", "confirmed_usd", "pending_usd", "spendable_usd", "total_usd",
     "unconfirmed_usd"}

StripFiat(rec) == [k \in DOMAIN rec \ FiatKeys |-> rec[k]]

StripList(list) == [i \in 1..Len(list) |-> StripFiat(list[i])]

\* an answer body without its fiat fields, at top level, in the listed
\* outputs and in the balance object
StripBody(body) ==
    [k \in DOMAIN body \ FiatKeys |->
        IF k = "utxos" THEN StripList(body[k])
        ELSE IF k = "balance" THEN StripFiat(body[k])
        ELSE body[k]]

StripCache(cache) ==
    [key \in DOMAIN cache |-> [cache[key] EXCEPT !.data = StripList(@)]]

\* C31: the fiat rate only annotates: whatever rate fetches succeeded and
\* when, the cache (entries, lists, timestamps) and every answer of /utxos,
\* /utxos/summary and /address-balance are, fiat fields aside, those of the
\* run with the same requests and indexer data in which no rate was ever set.
C31_FiatOnlyAnnotates ==
    /\ StripCache(utxo_cache) = unrated
    /\ ev.type \in {"utxos_response", "utxos_failed", "utxos_fetch", "utxos_summary",
                    "address_balance"}
       => /\ ev.status = ev.plain.status
          /\ StripBody(ev.body) = ev.plain.body

\* a summary with fiat totals is answered from a non-empty list that was
\* cached before any rate was known, so its outputs carry no fiat field
C31_Witness ==
    /\ ev.type = "utxos_summary" /\ ev.status = 200
    /\ "total_usd" \in DOMAIN ev.body /\ ev.body.utxo_count > 0
    /\ "fiat_usd" \notin DOMAIN utxo_cache[<<"testnet", "a1">>].data[1]
    /\ StripBody(ev.body) = ev.plain.body /\ ev.body # ev.plain.body

\* C32: once removeAddress(a) has returned the poller starts no fetch for a:
\* every pending request of a sweep for a removed address was already
\* pending when the address was removed.
C32_NoPollFetchAfterRemove ==
    \A i \in DOMAIN inflight :
        (inflight[i].owner = "poll" /\ removed[inflight[i].addr]) => inflight[i].stale

\* C33: after any sequence of startPolling and stopPolling calls at most one
\* poll timer is active, and it is the one the engine holds; only a
\* startPolling without a held timer emits polling:started; after
\* stopPolling no timer is active; a sweep begins only while a timer is held.
C33_OnePollTimer ==
    [][ /\ polling'.active <= 1
        /\ polling'.set <=> polling'.active = 1
        /\ ev'.type = "polling:started" => (~polling.set /\ polling.active = 0)
        /\ ev'.type = "startPolling:noop" => polling' = polling
        /\ ev'.type \in {"polling:stopped", "stopPolling:noop"} => polling'.active = 0
        /\ ev'.type = "sweep" => polling.set
      ]_vars

\* startPolling was called while a timer was active and a sweep's request is
\* pending: still one timer
C33_Witness ==
    /\ ev.type = "startPolling:noop"
    /\ polling.active = 1
    /\ inflight # <<>>

\* the confirmation count a stored output really has: the chain tip is such
\* that every confirmed output of the indexer's replies has MaxConfirmations
RealConfirmations(u) == IF u.is_confirmed THEN MaxConfirmations ELSE 0

\* C34: for every configured threshold, the balance answered after a fetch
\* counts as spendable every confirmed output whose real confirmation count
\* reaches the threshold (with threshold 2, an output with 3 confirmations).
C34_SpendableAtEveryThreshold ==
    (ev.type = "fetch_done" /\ ev.owner = "balance" /\ ev.status = 200)
    => LET list == UtxosOr(utxos, ev.addr)
       IN ev.body.spendable_balance =
             SumSeq([i \in 1..Len(list) |->
                        IF list[i].is_confirmed /\ RealConfirmations(list[i]) >= min_conf
                        THEN list[i].value ELSE 0])

----------------------------------------------------------------------------
(* The OP_RETURN routes (src/bitcoin-beast-framework.js:720-907).  A string  *)
(* is the sequence of its code points, a Buffer the sequence of its bytes.   *)

MAX_OPRETURN == 80
DEFAULT_FEE == 2000
OP_RETURN == 106
\* opcodes of the script library that script.compile uses for a data chunk
OP_PUSHDATA1 == 76
OP_RESERVED == 80
OP_1NEGATE == 79
REPLACEMENT == 65533

MaxPayload == 81

\* payloads are made of the characters U+0001, 'A' (65) and U+00E9 (233)
RECURSIVE Repeat(_, _)
Repeat(c, n) == IF n = 0 THEN <<>> ELSE <<c>> \o Repeat(c, n - 1)

\* payloads at the edges of the encodings: empty, one and two control
\* characters, letters up to one byte beyond the limit, and two-byte characters
\* whose count is below the limit while their bytes are at or above it
Payloads ==
    {<<>>} \cup { Repeat(1, n) : n \in {1, 2} }
    \cup { Repeat(65, n) : n \in {1, 75, 76, MAX_OPRETURN, MaxPayload} }
    \cup { Repeat(233, n) : n \in {MAX_OPRETURN \div 2, MaxPayload \div 2 + 1} }

\* Buffer.from(str, 'utf-8') (745, 840): one byte below U+0080, two up to U+07FF
Utf8Char(c) == IF c < 128 THEN <<c>> ELSE <<192 + (c \div 64), 128 + (c % 64)>>

RECURSIVE Utf8Bytes(_)
Utf8Bytes(str) ==
    IF str = <<>> THEN <<>> ELSE Utf8Char(Head(str)) \o Utf8Bytes(Tail(str))

\* Buffer.from(str, 'hex') (840): two hex digits make a byte, decoding stops
\* at the first character that is no hex digit; of CodePoints only 'A' is one
RECURSIVE HexBytes(_)
HexBytes(str) ==
    IF Len(str) >= 2 /\ str[1] = 65 /\ str[2] = 65
    THEN <<170>> \o HexBytes(Tail(Tail(str)))
    ELSE <<>>

Encodings == {"utf-8", "hex", "bogus"}
BufferFrom(str, encoding) == IF encoding = "hex" THEN HexBytes(str) ELSE Utf8Bytes(str)

\* buffer.toString('utf-8') (883): well-formed one- and two-byte sequences
\* decode to their character, any other byte to U+FFFD
RECURSIVE Utf8String(_)
Utf8String(b) ==
    IF b = <<>> THEN <<>>
    ELSE IF b[1] < 128 THEN <<b[1]>> \o Utf8String(Tail(b))
    ELSE IF b[1] >= 194 /\ b[1] < 224 /\ Len(b) >= 2 /\ b[2] >= 128 /\ b[2] < 192
         THEN <<(b[1] - 192) * 64 + (b[2] - 128)>> \o Utf8String(Tail(Tail(b)))
         ELSE <<REPLACEMENT>> \o Utf8String(Tail(b))

\* the size checks (746, 845)
TooLargeNever(buffer) == FALSE
TooLarge(buffer) == Len(buffer) > MAX_OPRETURN

\* script.compile on a data chunk (795-798): a one-byte chunk holding 1..16 or
\* 0x81 becomes the single opcode OP_1..OP_16 or OP_1NEGATE (minimal push);
\* any other chunk is pushed with its length, behind OP_PUSHDATA1 from 76
\* bytes on
asMinimalOP(buffer) ==
    IF Len(buffer) = 0 THEN <<0>>
    ELSE IF Len(buffer) # 1 THEN <<>>
    ELSE IF buffer[1] >= 1 /\ buffer[1] <= 16 THEN <<OP_RESERVED + buffer[1]>>
    ELSE IF buffer[1] = 129 THEN <<OP_1NEGATE>>
    ELSE <<>>

PushData(buffer) ==
    IF Len(buffer) < OP_PUSHDATA1 THEN <<Len(buffer)>> \o buffer
    ELSE <<OP_PUSHDATA1, Len(buffer)>> \o buffer

dataScript(data_buffer) ==
    <<OP_RETURN>> \o (IF asMinimalOP(data_buffer) # <<>> THEN asMinimalOP(data_buffer)
                      ELSE PushData(data_buffer))

\* recipients: none, one that is no address, the key's own address, another
\* address; the 20-byte hash of a witness program is one cell here
ToAddresses == {"", "bad", "own", "other"}
AddrHash(a) == IF a = "own" THEN 1 ELSE 2
toOutputScript(a) == <<0, 20, AddrHash(a)>>

OpNetworks == Networks \cup {"regtest"}
NoOpUtxo == [given |-> FALSE, txid |-> 0, vout |-> 0, value |-> 0]
OpUtxos == {NoOpUtxo} \cup { [given |-> TRUE, txid |-> 17, vout |-> 0, value |-> v] :
                              v \in {1000, 3000} }
OpFees == {1000, DEFAULT_FEE}

\* tx.toHex() (811) and Transaction.fromHex (872): the inputs, then each
\* output as its value, the length of its script and the script's bytes
RECURSIVE WriteOuts(_)
WriteOuts(outs) ==
    IF outs = <<>> THEN <<>>
    ELSE <<Head(outs).value, Len(Head(outs).script)>> \o Head(outs).script
         \o WriteOuts(Tail(outs))

toHex(tx) ==
    <<Len(tx.ins)>> \o <<tx.ins[1].hash, tx.ins[1].index>>
    \o <<Len(tx.outs)>> \o WriteOuts(tx.outs)

RECURSIVE ReadOuts(_, _)
ReadOuts(cells, n) ==
    IF n = 0 THEN <<>>
    ELSE <<[value |-> cells[1], script |-> SubSeq(cells, 3, 2 + cells[2])]>>
         \o ReadOuts(SubSeq(cells, 3 + cells[2], Len(cells)), n - 1)

fromHex(cells) ==
    [ins |-> <<[hash |-> cells[2], index |-> cells[3]]>>,
     outs |-> ReadOuts(SubSeq(cells, 5, Len(cells)), cells[4])]

OpEvent(route, req, status, body) ==
    [type |-> "opreturn", addr |-> "", route |-> route, req |-> req,
     status |-> status, body |-> body]

\* the transaction the Psbt holds after the addInput / addOutput calls (776-800)
OpReturnTx(req, data_buffer) ==
    [ins |-> <<[hash |-> req.utxo.txid, index |-> req.utxo.vout]>>,
     input_value |-> req.utxo.value,
     outs |-> (IF req.to_address # "" /\ req.utxo.value > req.fee
               THEN <<[script |-> toOutputScript(req.to_address),
                       value |-> req.utxo.value - req.fee]>>
               ELSE <<>>)
              \o <<[script |-> dataScript(data_buffer), value |-> 0]>>]

\* the outputs array of the answer (815-818)
ReportedOutputs(req, data_buffer) ==
    (IF req.to_address # ""
     THEN <<[type |-> "payment", address |-> req.to_address,
             value |-> req.utxo.value - req.fee]>>
     ELSE <<>>)
    \o <<[type |-> "OP_RETURN", value |-> 0, data |-> req.opreturn_data,
          hex |-> data_buffer]>>

(* POST /create-opreturn-tx (731-826).  lib_ok: signInput, finalizeAllInputs *)
(* and extractTransaction go through; txid, size and vsize are left out of   *)
(* the answer, tx is the transaction that hex serialises.                    *)
CreateOpReturnTx(req, lib_ok) ==
    LET data_buffer == BufferFrom(req.opreturn_data, "utf-8")
        tx == OpReturnTx(req, data_buffer)
    IN
    /\ alive
    /\ ev' = IF req.wif = "" \/ ~req.utxo.given \/ req.opreturn_data = <<>>
             THEN OpEvent("create-opreturn-tx", req, 400, [error |-> "missing"])
             ELSE IF req.network \notin Networks
             THEN OpEvent("create-opreturn-tx", req, 400, [error |-> "network"])
             ELSE IF TooLarge(data_buffer)
             THEN OpEvent("create-opreturn-tx", req, 400, [error |-> "too large"])
             ELSE IF req.wif = "bad"
             THEN OpEvent("create-opreturn-tx", req, 400, [error |-> "wif"])
             ELSE IF req.to_address = "bad"
             THEN OpEvent("create-opreturn-tx", req, 400, [error |-> "recipient"])
             ELSE IF ~lib_ok
             THEN OpEvent("create-opreturn-tx", req, 500, [error |-> "library"])
             ELSE OpEvent("create-opreturn-tx", req, 200,
                          [success |-> TRUE, tx |-> tx, hex |-> toHex(tx),
                           opreturn_data |-> req.opreturn_data,
                           opreturn_hex |-> data_buffer, fee |-> req.fee,
                           network |-> req.network,
                           outputs |-> ReportedOutputs(req, data_buffer)])
    /\ UNCHANGED <<alive, addresses, storeVars, min_conf, monitoredAddresses, wsVars,
                   polling, inflight, removed, extVars>>

(* POST /encode-opreturn (829-861); the script text of the answer is left out *)
EncodeOpReturn(data, encoding) ==
    LET buffer == BufferFrom(data, encoding)
        req == [data |-> data, encoding |-> encoding]
    IN
    /\ alive
    /\ ev' = IF data = <<>>
             THEN OpEvent("encode-opreturn", req, 400, [error |-> "missing"])
             ELSE IF encoding = "bogus"
             THEN OpEvent("encode-opreturn", req, 400, [error |-> "encoding"])
             ELSE IF TooLarge(buffer)
             THEN OpEvent("encode-opreturn", req, 400, [error |-> "too large"])
             ELSE OpEvent("encode-opreturn", req, 200,
                          [data |-> data, encoding |-> encoding, hex |-> buffer,
                           bytes |-> Len(buffer),
                           fits_opreturn |-> (Len(buffer) <= MAX_OPRETURN)])
    /\ UNCHANGED <<alive, addresses, storeVars, min_conf, monitoredAddresses, wsVars,
                   polling, inflight, removed, extVars>>

\* the forEach over tx.outs (876-891): an entry for every output whose script
\* starts with OP_RETURN, its data the script from the third byte on
OpReturnOutputs(outs) ==
    LET idx == SelectSeq([i \in 1..Len(outs) |-> i],
                         LAMBDA i : Len(outs[i].script) > 0
                                    /\ outs[i].script[1] = OP_RETURN)
        slice(script) == SubSeq(script, 3, Len(script))
    IN [k \in 1..Len(idx) |->
          [index |-> idx[k] - 1,
           data |-> Utf8String(slice(outs[idx[k]].script)),
           hex |-> slice(outs[idx[k]].script),
           bytes |-> Len(slice(outs[idx[k]].script))]]

\* the last answer is a transaction built by create-opreturn-tx
Built == ev.type = "opreturn" /\ ev.route = "create-opreturn-tx" /\ ev.status = 200

(* POST /decode-opreturn (864-905) with the hex of the transaction just      *)
(* built, with no tx_hex, or with text that is no transaction (garbled).     *)
(* payload (history) is the opreturn_data the transaction was built from.    *)
DecodeOpReturn(given, garbled) ==
    LET tx == fromHex(ev.body.hex)
        req == [tx_hex |-> IF given THEN ev.body.hex ELSE <<>>, garbled |-> garbled,
                payload |-> ev.req.opreturn_data]
    IN
    /\ alive
    /\ Built
    /\ ev' = IF ~given
             THEN OpEvent("decode-opreturn", req, 400, [error |-> "missing"])
             ELSE IF garbled
             THEN OpEvent("decode-opreturn", req, 500, [error |-> "format"])
             ELSE OpEvent("decode-opreturn", req, 200,
                          [total_outputs |-> Len(tx.outs),
                           opreturn_count |-> Len(OpReturnOutputs(tx.outs)),
                           opreturn_outputs |-> OpReturnOutputs(tx.outs)])
    /\ UNCHANGED <<alive, addresses, storeVars, min_conf, monitoredAddresses, wsVars,
                   polling, inflight, removed, extVars>>

\* requests whose fields other than the payload pass every check, and
\* requests that differ from such a one in a single field
ValidOpRequests ==
    [wif : {"k1"}, utxo : OpUtxos \ {NoOpUtxo}, to_address : ToAddresses \ {"bad"},
     opreturn_data : Payloads, network : Networks, fee : OpFees]

BaseOpRequests ==
    { r \in ValidOpRequests : /\ r.utxo.value = 3000 /\ r.to_address = ""
                              /\ r.network = "testnet" /\ r.fee = DEFAULT_FEE }

OpRequests ==
    ValidOpRequests
    \cup { [r EXCEPT !.wif = w] : r \in BaseOpRequests, w \in Wifs }
    \cup { [r EXCEPT !.utxo = NoOpUtxo] : r \in BaseOpRequests }
    \cup { [r EXCEPT !.to_address = "bad"] : r \in BaseOpRequests }
    \cup { [r EXCEPT !.network = "regtest"] : r \in BaseOpRequests }

NextOpReturn ==
    \/ \E req \in OpRequests, lib_ok \in BOOLEAN : CreateOpReturnTx(req, lib_ok)
    \/ \E data \in Payloads, encoding \in Encodings : EncodeOpReturn(data, encoding)
    \/ \E given \in BOOLEAN, garbled \in BOOLEAN : DecodeOpReturn(given, garbled)

SpecOpReturn == Init /\ [][NextOpReturn]_vars

----------------------------------------------------------------------------
(* The standalone wallet router (src/routes/wallet-routes.js:1-158)          *)

MaxMonitored == 3

\* POST /wallet/add-address (23-37): 400 without an address, else the pair is
\* pushed and the new length of the array is reported
StandaloneAddAddress(address, net) ==
    /\ alive
    /\ IF address = ""
       THEN /\ ev' = [type |-> "standalone-add", addr |-> address, status |-> 400,
                      body |-> [error |-> "Address required"]]
            /\ UNCHANGED monitoredAddresses
       ELSE /\ Len(monitoredAddresses) < MaxMonitored
            /\ monitoredAddresses' =
                   Append(monitoredAddresses, [address |-> address, network |-> net])
            /\ ev' = [type |-> "standalone-add", addr |-> address, status |-> 200,
                      body |-> [status |-> "ADDED", address |-> address, network |-> net,
                                monitored_count |-> Len(monitoredAddresses')]]
    /\ UNCHANGED <<alive, addresses, storeVars, min_conf, wsVars, polling, inflight,
                   removed, extVars>>

NextStandalone ==
    \E a \in Addr \cup {""}, n \in Networks : StandaloneAddAddress(a, n)

SpecStandalone == Init /\ [][NextStandalone]_vars

\* C35: create-opreturn-tx and encode-opreturn answer a payload of more than
\* 80 bytes with an error and no transaction or encoding; a non-empty payload
\* of at most 80 bytes in an otherwise valid request is accepted; every
\* successful encode-opreturn answer has fits_opreturn = TRUE.
C35_SizeLimit ==
    ev.type = "opreturn" =>
      /\ ev.route = "create-opreturn-tx" =>
           LET bytes == Len(Utf8Bytes(ev.req.opreturn_data)) IN
           /\ bytes > 80 => ev.status = 400 /\ "hex" \notin DOMAIN ev.body
           /\ ( /\ bytes >= 1 /\ bytes <= 80
                /\ ev.req.wif = "k1" /\ ev.req.utxo.given
                /\ ev.req.network \in Networks /\ ev.req.to_address # "bad" )
              => ev.status \in {200, 500} /\ ev.body # [error |-> "too large"]
           /\ ev.status = 200 => bytes >= 1 /\ bytes <= 80
      /\ ev.route = "encode-opreturn" =>
           LET bytes == Len(BufferFrom(ev.req.data, ev.req.encoding)) IN
           /\ bytes > 80 => ev.status = 400 /\ "hex" \notin DOMAIN ev.body
           /\ (ev.req.data # <<>> /\ ev.req.encoding # "bogus" /\ bytes <= 80)
              => ev.status = 200
           /\ ev.status = 200 => ev.body.fits_opreturn /\ ev.body.bytes = bytes

C35_Witness ==
    /\ ev.type = "opreturn" /\ ev.route = "create-opreturn-tx" /\ ev.status = 400
    /\ ev.body = [error |-> "too large"]
    /\ Len(ev.req.opreturn_data) = 41 /\ ev.req.opreturn_data[1] = 233

\* C36: decoding the transaction that create-opreturn-tx built from a payload
\* of 1 to 80 bytes returns exactly one OP_RETURN output whose data and byte
\* count are those of the payload.
C36_RoundTrip ==
    ( /\ ev.type = "opreturn" /\ ev.route = "decode-opreturn" /\ ev.status = 200 )
    => /\ ev.body.opreturn_count = 1
       /\ ev.body.opreturn_outputs[1].data = ev.req.payload
       /\ ev.body.opreturn_outputs[1].bytes = Len(Utf8Bytes(ev.req.payload))

\* C37: in every successful create-opreturn-tx answer the reported fee is the
\* input value minus the sum of the output values of the built transaction,
\* and the reported outputs are the outputs of that transaction, one for one.
C37_ReportMatchesTx ==
    Built =>
      LET tx == ev.body.tx
          out == ev.body.outputs
      IN /\ ev.body.fee = tx.input_value - SumSeq([i \in 1..Len(tx.outs) |-> tx.outs[i].value])
         /\ Len(out) = Len(tx.outs)
         /\ \A i \in 1..Len(out) :
              /\ out[i].value = tx.outs[i].value
              /\ (out[i].type = "OP_RETURN") = (tx.outs[i].script[1] = OP_RETURN)

\* C38: the monitored_count a successful POST /wallet/add-address of the
\* standalone router reports is the number of distinct (address, network)
\* pairs added so far.
C38_CountsDistinctPairs ==
    (ev.type = "standalone-add" /\ ev.status = 200)
    => ev.body.monitored_count =
         Cardinality({monitoredAddresses[i] : i \in 1..Len(monitoredAddresses)})

====
